---- MODULE Spec2Model ----
(***************************************************************************)
(* Nagare: a model of the stream core (src/src/nagare.ts), the fusion      *)
(* compiler (src/src/internal/compile.ts, also src/unnamed/part_011) and   *)
(* the backpressure utilities (src/src/backpressure.ts).                   *)
(*                                                                         *)
(* Values are integers.  U stands for JavaScript's undefined ("no value"), *)
(* a negative integer returned by a user callback stands for "the callback *)
(* threw that error".  Source items are drawn from 1..MaxVal.              *)
(***************************************************************************)
EXTENDS Integers, Sequences, FiniteSets

\* ------------------------------------------------------------------ bounds
MaxLen == 3
MaxVal == 2
MaxOps == 2
MaxPolicy == 1
MaxN == 2
MaxRuns == 2
MaxInitial == 3
MaxAmount == 2
MaxCalls == 4
MaxWindow == 3
MaxEvents == 2
MaxTime == 6
\* Number.MAX_SAFE_INTEGER (2^53 - 1) scaled down to the model's integers
MaxSafeInteger == 6
\* the `limit` of promises awaited together (256), scaled down
AsyncLimit == 2
InnerLen == 2
NumSources == 2
MaxSourceLen == 3
MaxMergeLen == 2
TimerMs == 2
MaxClock == 4
MaxRetries == 2
MaxDelay == 2
MantissaBits == 3
MaxW == 3
MaxWasmCalls == 2
MaxWasmItems == 2
MaxFrames == 4
MaxResets == 2
MaxDepth == 2
MaxBroadcasts == 4
MaxGrants == 2
StreamCredits == 2
MaxStreams == 2
MaxItems == 3
MaxQueue == 1
MaxTarget == 2
MaxLatency == 5
MaxDecisions == 3
MaxKernelLen == 5
MaxManagerCalls == 3
MaxDefault == 1

\* ------------------------------------------------------- values, callbacks
U == 0

Vals == 1..MaxVal

MaxOf(a, b) == IF a >= b THEN a ELSE b

RECURSIVE SeqsUpTo(_, _)
SeqsUpTo(S, n) ==
  IF n = 0 THEN {<<>>}
  ELSE LET shorter == SeqsUpTo(S, n - 1)
       IN shorter \cup {Append(s, x) : s \in {t \in shorter : Len(t) = n - 1}, x \in S}

\* The user callbacks handed to map(): "inc" is total, "throw2" throws on the
\* item 2 (the error carries the item), "undef1" returns undefined on 1.
MapFns == {"inc", "throw2", "undef1"}

MapFn(f, v) ==
  CASE f = "inc" -> v + 1
    [] f = "throw2" -> IF v = 2 THEN 0 - v ELSE v
    [] f = "undef1" -> IF v = 1 THEN U ELSE v
    [] OTHER -> v

\* The predicates handed to filter().
Preds == {"odd"}

Pred(p, v) ==
  CASE p = "odd" -> v % 2 = 1
    [] OTHER -> TRUE

\* The reducers handed to scan(fn, initial); the seed is 0.
ScanFns == {"sum"}

ScanFn(f, acc, v) ==
  CASE f = "sum" -> acc + v
    [] OTHER -> v

ScanSeed(f) == 0

\* The handlers handed to rescue(): "hCode" maps the error of item x to 10+x,
\* "hUndef" returns undefined.
Handlers == {"hCode", "hUndef"}

Handler(h, err) ==
  CASE h = "hCode" -> 10 - err
    [] h = "hUndef" -> U
    [] OTHER -> U

\* --------------------------------------------------------------- the state
VARIABLES
  X,              \* the items of the base source (array or async generator)
  src,            \* "array" | "asyncgen": what from() was given
  nodes,          \* the chain of Nagare objects, base first: [kind, fn, n]
  heap,           \* mutable fields: closure state, errorHandler, terminateOnError
  fusionEnabled,  \* Nagare._fusionEnabled
  jitMode,        \* Nagare._jitMode
  genDone,        \* the async generator object has been consumed
  hist,           \* what the consumer of each run so far received
  credits,        \* CreditController.credits
  initialCredits, \* CreditController.initialCredits
  granted,        \* ghost: sum of the amounts passed to addCredits
  consumed,       \* ghost: sum of the amounts consumeCredit accepted
  resets,         \* ghost: granted, consumed and clamping since the last reset
  lastCall,       \* ghost: the last CreditController call, its argument and result
  events,         \* WindowedRateLimiter.events
  windowSizeMs,   \* WindowedRateLimiter.windowSizeMs
  maxEvents,      \* WindowedRateLimiter.maxEvents
  now,            \* the clock handed to tryAcquire
  acquired        \* ghost: timestamps of every tryAcquire that returned true

pipeVars == <<X, src, nodes, heap, fusionEnabled, jitMode, genDone, hist>>
creditVars == <<credits, initialCredits, granted, consumed, resets, lastCall>>
rateVars == <<events, windowSizeMs, maxEvents, now, acquired>>

\* The machines with several tasks in flight keep their state in one record
\* each; a record with phase "none" means the machine is not in use.
VARIABLES
  am,             \* toArray() over an array with an operator returning a promise
  ob,             \* observe(next): the subscription and its consumer loop
  td,             \* a debounce(ms) or bufferTime(ms) generator and its producer task
  sw,             \* switchMap(fn): the generator, its outer source and inner streams
  cb,             \* nagare.combine(...): the generator and its source iterators
  mg,             \* merge(...): the generator and its source iterators
  cm,             \* concatMap(fn)(outer): the call and the generator it may create
  rt,             \* retry(max, delay)(src): the generator and the consumer at its yield
  wa,             \* windowedAggregate(W, op): the generator and its running state
  wm,             \* the WASM module loader and a pipeline built with mapWasm
  fs,             \* a FrameSerializer and the frames it has produced
  gd,             \* a guarded fused run over an array with an async stage, and its hand-off
  kn,             \* the per-item functions and array kernels run on one operator list and array
  rd,             \* a reduce call and a toArray call on one freshly built pipeline
  ci,             \* a CreditController whose native controller is still being initialised
  dp,             \* a DynamicBackpressure policy and the calls made on it
  pq,             \* the Durable Object's queue and its processQueue runs
  bc,             \* the Durable Object's subscribers, their credit streams and the frames sent
  ms              \* a MultiStreamCreditManager and the last operation called on it

taskVars == <<am, ob, td, sw, cb, mg, cm, rt, wa, wm, fs, gd, kn, rd, ci, dp, pq, bc, ms>>
objVars == <<pipeVars, creditVars, rateVars>>
vars == <<objVars, taskVars>>

None == [phase |-> "none"]

NoTasks == am = None /\ ob = None /\ td = None /\ sw = None /\ cb = None /\ mg = None /\ cm = None /\ rt = None /\ wa = None /\ wm = None /\ fs = None /\ gd = None /\ kn = None /\ rd = None /\ ci = None /\ dp = None /\ pq = None /\ bc = None /\ ms = None

\* ----------------------------------------------------------- Nagare nodes
OpKinds == {"map", "filter", "scan", "take", "skip"}

BaseNode == [kind |-> "base", fn |-> "", n |-> 0]

\* flattenChain: the operators of nodes 1..k, inner-most first.  Every
\* operator is named by the index of the node that holds it.
FlatOps(ns, k) ==
  LET HasOp(j) == ns[j].kind \in OpKinds
  IN SelectSeq([j \in 1..k |-> j], HasOp)

\* hasStatefulOps
hasStatefulOps(ns, idxs) ==
  \E i \in 1..Len(idxs) : ns[idxs[i]].kind \in {"scan", "take", "skip"}

skipPending_inclusive(skipped, count) == skipped <= count

\* Nagare.skip: the closure's test `skipped < count`
skipPending(skipped, count) == skipped < count

ScanCall_noStore(node, s, v) == [r |-> ScanFn(node.fn, s, v), s |-> s]

\* Nagare.scan: the mapper stores fn(accumulator, value) and returns it.
ScanCall(node, s, v) == [r |-> ScanFn(node.fn, s, v), s |-> ScanFn(node.fn, s, v)]

\* The tagged closure a node holds, called on v with closure state s
\* (scan: accumulator, take: taken, skip: skipped).  r < 0: it threw.
OpCall(node, s, v) ==
  CASE node.kind = "map" -> [r |-> MapFn(node.fn, v), s |-> s]
    [] node.kind = "filter" -> [r |-> IF Pred(node.fn, v) THEN v ELSE U, s |-> s]
    [] node.kind = "scan" -> ScanCall(node, s, v)
    [] node.kind = "take" ->
         IF s >= node.n THEN [r |-> U, s |-> s] ELSE [r |-> v, s |-> s + 1]
    [] node.kind = "skip" ->
         IF skipPending(s, node.n) THEN [r |-> U, s |-> s + 1] ELSE [r |-> v, s |-> s]
    [] OTHER -> [r |-> v, s |-> s]

\* The loop shared by the closure-composed per-item functions: apply the
\* operators idxs[i..] to cur, stop at undefined, let a throw escape (r < 0).
RECURSIVE RunOps(_, _, _, _, _)
RunOps(ns, idxs, i, st, cur) ==
  IF i > Len(idxs) THEN [r |-> cur, st |-> st]
  ELSE LET j == idxs[i]
           c == OpCall(ns[j], st[j], cur)
           st2 == [st EXCEPT ![j] = c.s]
       IN IF c.r < 0 \/ c.r = U THEN [r |-> c.r, st |-> st2]
          ELSE RunOps(ns, idxs, i + 1, st2, c.r)

\* new Function(...) is given a body that declares `let a<i> = a<i>;` for a
\* scan while a<i> is also a parameter: a SyntaxError, caught by the
\* compiler's try/catch.  So code generation succeeds only without a scan.
JitCompiles(jit, ns, idxs) ==
  /\ jit = "fast"
  /\ \A i \in 1..Len(idxs) : ns[idxs[i]].kind # "scan"

\* compileArrayKernelUnchecked: the generated loop body for one source item.
\* take/skip cursors are locals of the generated factory (loc), a filter
\* calls its predicate, any other operator is called as the closure it is.
RECURSIVE KernelItem(_, _, _, _, _)
KernelItem(ns, idxs, i, loc, c) ==
  IF i > Len(idxs) THEN [tag |-> "emit", v |-> c, loc |-> loc]
  ELSE LET j == idxs[i]
           node == ns[j]
       IN CASE node.kind = "filter" ->
                 IF ~Pred(node.fn, c) THEN [tag |-> "continue", v |-> U, loc |-> loc]
                 ELSE KernelItem(ns, idxs, i + 1, loc, c)
            [] node.kind = "take" ->
                 IF loc[j] >= node.n THEN [tag |-> "break", v |-> U, loc |-> loc]
                 ELSE KernelItem(ns, idxs, i + 1, [loc EXCEPT ![j] = @ + 1], c)
            [] node.kind = "skip" ->
                 IF loc[j] < node.n
                 THEN [tag |-> "continue", v |-> U, loc |-> [loc EXCEPT ![j] = @ + 1]]
                 ELSE KernelItem(ns, idxs, i + 1, loc, c)
            [] OTHER ->
                 LET r == OpCall(node, 0, c).r
                 IN IF r < 0 THEN [tag |-> "throw", v |-> r, loc |-> loc]
                    ELSE IF r = U THEN [tag |-> "continue", v |-> U, loc |-> loc]
                    ELSE KernelItem(ns, idxs, i + 1, loc, r)

\* compileArrayKernelUnchecked: kernel(src, start, out, k).  read is the
\* last index of src the loop looked at.
RECURSIVE compileArrayKernelUnchecked(_, _, _, _, _, _)
compileArrayKernelUnchecked(ns, idxs, A, i, loc, out) ==
  IF i > Len(A) THEN [out |-> out, thrown |-> FALSE, err |-> 0, read |-> i - 1]
  ELSE LET c == KernelItem(ns, idxs, 1, loc, A[i])
       IN CASE c.tag = "break" -> [out |-> out, thrown |-> FALSE, err |-> 0, read |-> i]
            [] c.tag = "throw" -> [out |-> out, thrown |-> TRUE, err |-> c.v, read |-> i]
            [] c.tag = "emit" ->
                 compileArrayKernelUnchecked(ns, idxs, A, i + 1, c.loc, Append(out, c.v))
            [] OTHER -> compileArrayKernelUnchecked(ns, idxs, A, i + 1, c.loc, out)

GuardedCall_noHandler(ns, idxs, h, t, st, v) ==
  LET c == RunOps(ns, idxs, 1, st, v)
  IN IF c.r >= 0 \/ t THEN c ELSE [r |-> U, st |-> c.st]

\* compileOperatorChain, the guarded closure (handler or terminateOnError
\* set), called on v: a throw goes to the handler, else is rethrown under
\* terminateOnError, else yields undefined.
GuardedCall(ns, idxs, h, t, st, v) ==
  LET c == RunOps(ns, idxs, 1, st, v)
  IN IF c.r >= 0 THEN c
     ELSE IF h # "none" THEN [r |-> Handler(h, c.r), st |-> c.st]
     ELSE IF t THEN c
     ELSE [r |-> U, st |-> c.st]

\* An event is a value a generator yields together with the heap as it is
\* at that yield: generators are lazy, so a consumer that stops early leaves
\* the heap as of the last yield it saw.
Ev(v, H) == [v |-> v, h |-> H]

Touch(H, i) == [H EXCEPT !.read = MaxOf(@, i)]

\* The loop `for (i...) { out = fused(data[i]); if (out !== undefined) yield out }`
\* over the guarded closure (both in the iterator and in toArray).
RECURSIVE GuardedLoop(_, _, _, _, _, _, _)
GuardedLoop(ns, idxs, A, k, i, H, evs) ==
  IF i > Len(A) THEN [evs |-> evs, thrown |-> FALSE, err |-> 0, H |-> H]
  ELSE LET c == GuardedCall(ns, idxs, H.hd[k], H.tm[k], H.st, A[i])
           H2 == Touch([H EXCEPT !.st = c.st], i)
       IN IF c.r < 0 THEN [evs |-> evs, thrown |-> TRUE, err |-> c.r, H |-> H2]
          ELSE GuardedLoop(ns, idxs, A, k, i + 1, H2,
                           IF c.r # U THEN Append(evs, Ev(c.r, H2)) ELSE evs)

\* The loop over `fast`, the closure fallback of compileOperatorChainUnchecked
\* (taken when the kernel is null, i.e. when code generation is off or fails).
RECURSIVE FastLoop(_, _, _, _, _, _)
FastLoop(ns, idxs, A, i, H, evs) ==
  IF i > Len(A) THEN [evs |-> evs, thrown |-> FALSE, err |-> 0, H |-> H]
  ELSE LET c == RunOps(ns, idxs, 1, H.st, A[i])
           H2 == Touch([H EXCEPT !.st = c.st], i)
       IN IF c.r < 0 THEN [evs |-> evs, thrown |-> TRUE, err |-> c.r, H |-> H2]
          ELSE FastLoop(ns, idxs, A, i + 1, H2,
                        IF c.r # U THEN Append(evs, Ev(c.r, H2)) ELSE evs)

ZeroLoc(ns) == [j \in 1..Len(ns) |-> 0]

StartIndex_noAdvance(probing) == 1

\* `startIndex = 1` after the probe of the first item (indices here are 1-based)
StartIndex(probing) == IF probing THEN 2 ELSE 1

\* The fusion fast path without handler and without terminateOnError: probe
\* the first item with `fused` unless the chain is stateful, then run the
\* array kernel, or the `fast` loop when there is no kernel.
UncheckedPath(ns, idxs, A, jit, H) ==
  LET stateful == hasStatefulOps(ns, idxs)
      probing == ~stateful /\ Len(A) > 0
      p == RunOps(ns, idxs, 1, H.st, A[1])
      H1 == IF probing THEN Touch(H, 1) ELSE H
      evs0 == IF probing /\ p.r > U THEN <<Ev(p.r, H1)>> ELSE <<>>
      startIndex == StartIndex(probing)
  IN IF probing /\ p.r < 0
     THEN [evs |-> <<>>, thrown |-> TRUE, err |-> p.r, H |-> H1]
     ELSE IF JitCompiles(jit, ns, idxs)
     THEN LET K == compileArrayKernelUnchecked(ns, idxs, A, startIndex, ZeroLoc(ns), <<>>)
              HK == Touch(H1, K.read)
          IN [evs |-> evs0 \o [x \in 1..Len(K.out) |-> Ev(K.out[x], HK)],
              thrown |-> K.thrown, err |-> K.err, H |-> HK]
     ELSE FastLoop(ns, idxs, A, startIndex, H1, evs0)

\* The try block of Nagare[Symbol.asyncIterator] and of Nagare.toArray for
\* node k over an array base: the values it produces, and whether it threw.
Fusion(ns, A, jit, k, H) ==
  LET idxs == FlatOps(ns, k)
  IN IF H.hd[k] = "none" /\ ~H.tm[k]
     THEN UncheckedPath(ns, idxs, A, jit, H)
     ELSE GuardedLoop(ns, idxs, A, k, 1, H, <<>>)

\* Nagare.applyOperators of node k on value v, with st the closure state of
\* the node's own operator.
applyOperators(ns, k, h, t, st, v) ==
  IF ns[k].kind \notin OpKinds THEN [r |-> v, s |-> st]
  ELSE LET c == OpCall(ns[k], st, v)
       IN IF c.r >= 0 THEN c
          ELSE IF h # "none" THEN [r |-> Handler(h, c.r), s |-> c.s]
          ELSE IF t THEN c
          ELSE [r |-> U, s |-> c.s]

\* The loop `for await (value of this.source) { applyOperators; yield }` of
\* node k over the events of its source.
RECURSIVE GenericLoop(_, _, _, _, _, _, _, _)
GenericLoop(ns, k, h, t, inner, i, own, evs) ==
  IF i > Len(inner.evs)
  THEN [evs |-> evs, err |-> inner.err, H |-> [inner.H EXCEPT !.st[k] = own]]
  ELSE LET e == inner.evs[i]
           c == applyOperators(ns, k, h, t, own, e.v)
           H2 == [e.h EXCEPT !.st[k] = c.s]
       IN IF c.r < 0 THEN [evs |-> evs, err |-> c.r, H |-> H2]
          ELSE GenericLoop(ns, k, h, t, inner, i + 1, c.s,
                           IF c.r # U THEN Append(evs, Ev(c.r, H2)) ELSE evs)

\* The base node iterating the array or the async generator it was given.
BaseEvents(A, H) ==
  [evs |-> [i \in 1..Len(A) |-> Ev(A[i], Touch(H, i))],
   err |-> 0,
   H |-> Touch(H, Len(A))]

\* The nested-source path hands the node's handler down to a source that
\* has none (together with the node's terminateOnError).
HandDown(H, k) ==
  IF k > 1 /\ H.hd[k] # "none" /\ H.hd[k - 1] = "none"
  THEN [H EXCEPT !.hd[k - 1] = H.hd[k], !.tm[k - 1] = H.tm[k]]
  ELSE H

\* What the consumer has received when the generic path runs after `pre`.
After(pre, G) == [evs |-> pre \o G.evs, err |-> G.err, H |-> G.H]

\* The outcome of the fusion try block F: its values, or, when it threw,
\* what it had yielded followed by the generic path G.
FusedOr(F, G) ==
  IF ~F.thrown THEN [evs |-> F.evs, err |-> 0, H |-> F.H] ELSE G

\* Nagare[Symbol.asyncIterator] of node k: the fusion path when the base is
\* an array, fusion is enabled and there are operators; when that throws, or
\* does not apply, the generic path over the node's source.
RECURSIVE Iterate(_, _, _, _)
RECURSIVE GenericPath(_, _, _, _)
GenericPath(P, cfg, k, H) ==
  IF k = 1 THEN BaseEvents(P.X, H)
  ELSE GenericLoop(P.nodes, k, H.hd[k], H.tm[k],
                   Iterate(P, cfg, k - 1, H), 1, H.st[k], <<>>)

FusedIterate(P, cfg, k, F) ==
  FusedOr(F, After(F.evs, GenericPath(P, cfg, k, HandDown(F.H, k))))

Fuses(P, cfg, k) ==
  cfg.fusion /\ P.src = "array" /\ Len(FlatOps(P.nodes, k)) > 0

Iterate(P, cfg, k, H) ==
  IF Fuses(P, cfg, k)
  THEN FusedIterate(P, cfg, k, Fusion(P.nodes, P.X, cfg.jit, k, H))
  ELSE GenericPath(P, cfg, k, HandDown(H, k))

EvVals(evs) == [i \in 1..Len(evs) |-> evs[i].v]

\* `for await (const value of this) result.push(value)`: the promise
\* resolves to what was collected, or rejects with the error thrown.
Collect(I) ==
  [out |-> IF I.err = 0 THEN EvVals(I.evs) ELSE <<>>, err |-> I.err, H |-> I.H]

\* toArray's own fusion try block F; when it threw, the catch falls back to
\* standard async iteration of the node.
FusedToArray(P, cfg, k, F) ==
  IF ~F.thrown THEN [out |-> EvVals(F.evs), err |-> 0, H |-> F.H]
  ELSE Collect(Iterate(P, cfg, k, F.H))

\* Nagare.toArray of node k: out is the array the promise resolves to, err
\* the error it rejects with (0: it resolves).
toArray(P, cfg, k, H) ==
  IF Fuses(P, cfg, k)
  THEN FusedToArray(P, cfg, k, Fusion(P.nodes, P.X, cfg.jit, k, H))
  ELSE IF P.src = "array" /\ Len(FlatOps(P.nodes, k)) = 0
  THEN [out |-> P.X, err |-> 0, H |-> H]
  ELSE Collect(Iterate(P, cfg, k, H))

\* ------------------------------------------------- the pipeline machine
Config == [fusion |-> fusionEnabled, jit |-> jitMode]

Top == Len(nodes)

\* An async generator object yields its items once; an array every time.
Pipeline ==
  [X |-> IF src = "asyncgen" /\ genDone THEN <<>> ELSE X, src |-> src, nodes |-> nodes]

InitSt(node) == IF node.kind = "scan" THEN ScanSeed(node.fn) ELSE 0

\* new Nagare(this) with one local operator (map, filter, scan, take, skip):
\* no handler, terminateOnError copied from the parent.
Chain(node, h, t) ==
  /\ hist = <<>>
  /\ IF node.kind \in OpKinds
     THEN Len(FlatOps(nodes, Top)) < MaxOps
     ELSE Len(nodes) - 1 - Len(FlatOps(nodes, Top)) < MaxPolicy
  /\ nodes' = Append(nodes, node)
  /\ heap' = [heap EXCEPT !.st = Append(@, InitSt(node)),
                          !.hd = Append(@, h),
                          !.tm = Append(@, t)]
  /\ UNCHANGED <<X, src, fusionEnabled, jitMode, genDone, hist>>
  /\ UNCHANGED <<creditVars, rateVars, taskVars>>

map == \E f \in MapFns : Chain([kind |-> "map", fn |-> f, n |-> 0], "none", heap.tm[Top])

filter == \E p \in Preds : Chain([kind |-> "filter", fn |-> p, n |-> 0], "none", heap.tm[Top])

scan == \E f \in ScanFns : Chain([kind |-> "scan", fn |-> f, n |-> 0], "none", heap.tm[Top])

take == \E n \in 1..MaxN : Chain([kind |-> "take", fn |-> "", n |-> n], "none", heap.tm[Top])

skip == \E n \in 1..MaxN : Chain([kind |-> "skip", fn |-> "", n |-> n], "none", heap.tm[Top])

rescue == \E h \in Handlers : Chain([kind |-> "rescue", fn |-> h, n |-> 0], h, heap.tm[Top])

terminateOnErrorMode == Chain([kind |-> "terminate", fn |-> "", n |-> 0], "none", TRUE)

\* The process-wide toggles are set before the first run.
setJitMode ==
  /\ hist = <<>>
  /\ \E m \in {"fast", "off"} : m # jitMode /\ jitMode' = m
  /\ UNCHANGED <<X, src, nodes, heap, fusionEnabled, genDone, hist>>
  /\ UNCHANGED <<creditVars, rateVars, taskVars>>

setFusionEnabled ==
  /\ hist = <<>>
  /\ fusionEnabled' = ~fusionEnabled
  /\ UNCHANGED <<X, src, nodes, heap, jitMode, genDone, hist>>
  /\ UNCHANGED <<creditVars, rateVars, taskVars>>

Run(op, r) ==
  /\ Len(hist) < MaxRuns
  /\ hist' = Append(hist, [op |-> op, cfg |-> Config, out |-> r.out, err |-> r.err,
                           read |-> r.H.read])
  /\ heap' = [r.H EXCEPT !.read = 0]
  /\ genDone' = (genDone \/ src = "asyncgen")
  /\ UNCHANGED <<X, src, nodes, fusionEnabled, jitMode>>
  /\ UNCHANGED <<creditVars, rateVars, taskVars>>

\* await pipeline.toArray()
ToArray == Run("toArray", toArray(Pipeline, Config, Top, heap))

\* for await (const v of pipeline) out.push(v)
Pushed(I) == [out |-> EvVals(I.evs), err |-> I.err, H |-> I.H]

ForAwait == Run("forAwait", Pushed(Iterate(Pipeline, Config, Top, heap)))

NoCredit ==
  /\ credits = 0 /\ initialCredits = 0 /\ granted = 0 /\ consumed = 0
  /\ resets = [granted |-> 0, consumed |-> 0, saturated |-> FALSE]
  /\ lastCall = [op |-> "new", amount |-> 0, before |-> 0, ok |-> TRUE, n |-> 0]

NoRate ==
  /\ events = <<>> /\ windowSizeMs = 1 /\ maxEvents = 1 /\ now = 0 /\ acquired = <<>>

NoPipe ==
  /\ X = <<>> /\ src = "array" /\ nodes = <<BaseNode>>
  /\ heap = [st |-> <<0>>, hd |-> <<"none">>, tm |-> <<FALSE>>, read |-> 0]
  /\ fusionEnabled = TRUE /\ jitMode = "fast" /\ genDone = FALSE /\ hist = <<>>

\* nagare.from(X): a base node over an array or over an async generator.
Init ==
  /\ X \in SeqsUpTo(Vals, MaxLen)
  /\ src \in {"array", "asyncgen"}
  /\ nodes = <<BaseNode>>
  /\ heap = [st |-> <<0>>, hd |-> <<"none">>, tm |-> <<FALSE>>, read |-> 0]
  /\ fusionEnabled = TRUE
  /\ jitMode = "fast"
  /\ genDone = FALSE
  /\ hist = <<>>
  /\ NoCredit
  /\ NoRate
  /\ NoTasks

Next ==
  \/ map
  \/ filter
  \/ scan
  \/ take
  \/ skip
  \/ rescue
  \/ terminateOnErrorMode
  \/ setJitMode
  \/ setFusionEnabled
  \/ ToArray
  \/ ForAwait

Spec == Init /\ [][Next]_vars

\* ---------------------------------------------------- CreditController
\* The controller without a native (WASM) controller attached: the JS
\* fallback branch of every method.

consumeAccepts_strict(c, amount) == c > amount

\* consumeCredit: the test `this.credits >= amount`
consumeAccepts(c, amount) == c >= amount

consumeLeaves_unguarded(c, amount) == c - amount

\* consumeCredit: this.credits afterwards
consumeLeaves(c, amount) == IF consumeAccepts(c, amount) THEN c - amount ELSE c

\* addCredits: Math.min(this.credits + amount, Number.MAX_SAFE_INTEGER)
addLeaves(c, amount) ==
  IF c + amount <= MaxSafeInteger THEN c + amount ELSE MaxSafeInteger

Called(op, amount, ok) ==
  [op |-> op, amount |-> amount, before |-> credits, ok |-> ok, n |-> lastCall.n + 1]

\* The amounts handed to consumeCredit and addCredits: `amount: number`,
\* nothing in either method rejects a negative one.
Amounts == (0 - MaxAmount)..MaxAmount

consumeCredit ==
  /\ lastCall.n < MaxCalls
  /\ \E amount \in Amounts :
       LET ok == consumeAccepts(credits, amount)
       IN /\ credits - amount <= MaxSafeInteger  \* the subtraction stays exact
          /\ credits' = consumeLeaves(credits, amount)
          /\ consumed' = IF ok THEN consumed + amount ELSE consumed
          /\ resets' = IF ok THEN [resets EXCEPT !.consumed = @ + amount] ELSE resets
          /\ lastCall' = Called("consumeCredit", amount, ok)
  /\ UNCHANGED <<initialCredits, granted>>
  /\ UNCHANGED <<pipeVars, rateVars, taskVars>>

addCredits ==
  /\ lastCall.n < MaxCalls
  /\ \E amount \in Amounts :
       LET clamped == addLeaves(credits, amount) # credits + amount
       IN /\ credits' = addLeaves(credits, amount)
          /\ granted' = granted + amount
          /\ resets' = [resets EXCEPT !.granted = @ + amount,
                                      !.saturated = @ \/ clamped]
          /\ lastCall' = Called("addCredits", amount, TRUE)
  /\ UNCHANGED <<initialCredits, consumed>>
  /\ UNCHANGED <<pipeVars, rateVars, taskVars>>

reset ==
  /\ lastCall.n < MaxCalls
  /\ credits' = initialCredits
  /\ resets' = [granted |-> 0, consumed |-> 0, saturated |-> FALSE]
  /\ lastCall' = Called("reset", 0, TRUE)
  /\ UNCHANGED <<initialCredits, granted, consumed>>
  /\ UNCHANGED <<pipeVars, rateVars, taskVars>>

\* new CreditController(initialCredits)
InitCredit ==
  /\ initialCredits \in 0..MaxInitial
  /\ credits = initialCredits
  /\ granted = 0
  /\ consumed = 0
  /\ resets = [granted |-> 0, consumed |-> 0, saturated |-> FALSE]
  /\ lastCall = [op |-> "new", amount |-> 0, before |-> 0, ok |-> TRUE, n |-> 0]
  /\ NoPipe
  /\ NoRate
  /\ NoTasks

NextCredit ==
  \/ consumeCredit
  \/ addCredits
  \/ reset

SpecCredit == InitCredit /\ [][NextCredit]_vars

\* ------------------------------------------------- WindowedRateLimiter
\* tryAcquire: this.events.filter(t => t > cutoff)
Recent(evs, cutoff) ==
  LET Keep(t) == t > cutoff IN SelectSeq(evs, Keep)

HasSlot_inclusive(evs, m) == Len(evs) <= m

\* tryAcquire: the test `this.events.length < this.maxEvents`
HasSlot(evs, m) == Len(evs) < m

\* tryAcquire(timestampMs), called with a clock that never runs backwards
tryAcquire ==
  \E t \in now..MaxTime :
    LET kept == Recent(events, t - windowSizeMs)
        ok == HasSlot(kept, maxEvents)
    IN /\ now' = t
       /\ events' = IF ok THEN Append(kept, t) ELSE kept
       /\ acquired' = IF ok THEN Append(acquired, t) ELSE acquired
       /\ UNCHANGED <<windowSizeMs, maxEvents>>
       /\ UNCHANGED <<pipeVars, creditVars, taskVars>>

\* new WindowedRateLimiter(windowSizeMs, maxEvents)
InitRate ==
  /\ windowSizeMs \in 1..MaxWindow
  /\ maxEvents \in 1..MaxEvents
  /\ events = <<>>
  /\ now = 0
  /\ acquired = <<>>
  /\ NoPipe
  /\ NoCredit
  /\ NoTasks

NextRate == tryAcquire

SpecRate == InitRate /\ [][NextRate]_vars

\* ------------------------------------ toArray with an async operator
\* Pipelines over an array in which "amap" is map(async x => x + 1).  An
\* element -v of a result stands for a Promise object that fulfils with v.
AsyncChains ==
  {<<"amap">>, <<"filter", "amap">>, <<"amap", "filter">>, <<"amap", "take">>}

PromiseOf(v) == 0 - v

\* `x % 2 === 1` on a Promise object is false
PredOn(c) == c > U /\ Pred("odd", c)

\* compileOperatorChain without handler, called on the probed item: a stage
\* returning a promise makes it throw ASYNC_DETECTED.
RECURSIVE FusedProbe(_, _, _)
FusedProbe(ops, i, c) ==
  IF i > Len(ops) THEN [async |-> FALSE, v |-> c]
  ELSE CASE ops[i] = "amap" -> [async |-> TRUE, v |-> U]
         [] ops[i] = "filter" ->
              IF PredOn(c) THEN FusedProbe(ops, i + 1, c) ELSE [async |-> FALSE, v |-> U]
         [] OTHER -> FusedProbe(ops, i + 1, c)

\* compileArrayKernelUnchecked on one item: no stage looks for a promise, so
\* what an async map returns is passed on as the value it is.
RECURSIVE AsyncKernelItem(_, _, _, _)
AsyncKernelItem(ops, i, c, taken) ==
  IF i > Len(ops) THEN [tag |-> "emit", v |-> c, taken |-> taken]
  ELSE CASE ops[i] = "amap" ->
              AsyncKernelItem(ops, i + 1, PromiseOf(MapFn("inc", c)), taken)
         [] ops[i] = "filter" ->
              IF PredOn(c) THEN AsyncKernelItem(ops, i + 1, c, taken)
              ELSE [tag |-> "continue", v |-> U, taken |-> taken]
         [] ops[i] = "take" ->
              IF taken >= MaxN THEN [tag |-> "break", v |-> U, taken |-> taken]
              ELSE AsyncKernelItem(ops, i + 1, c, taken + 1)
         [] OTHER -> AsyncKernelItem(ops, i + 1, c, taken)

RECURSIVE AsyncKernel(_, _, _, _, _)
AsyncKernel(ops, A, i, taken, out) ==
  IF i > Len(A) THEN out
  ELSE LET c == AsyncKernelItem(ops, 1, A[i], taken)
       IN CASE c.tag = "break" -> out
            [] c.tag = "emit" -> AsyncKernel(ops, A, i + 1, c.taken, Append(out, c.v))
            [] OTHER -> AsyncKernel(ops, A, i + 1, c.taken, out)

\* compileOperatorChainAsync on one item: every stage awaited in turn; the
\* value the returned promise fulfils with.
RECURSIVE fusedAsync(_, _, _)
fusedAsync(ops, i, c) ==
  IF i > Len(ops) THEN c
  ELSE CASE ops[i] = "amap" -> fusedAsync(ops, i + 1, MapFn("inc", c))
         [] ops[i] = "filter" -> IF PredOn(c) THEN fusedAsync(ops, i + 1, c) ELSE U
         [] OTHER -> fusedAsync(ops, i + 1, c)

\* the promises pushed to `pending` from index lo on, until `limit` is reached
Batch(A, lo) ==
  {i \in lo..Len(A) : i < lo + AsyncLimit}

\* settled.sort((a, b) => a.i - b.i): insertion of each entry by its index
RECURSIVE SortByIndex(_)
SortByIndex(q) ==
  IF q = <<>> THEN <<>>
  ELSE LET rest == SortByIndex(Tail(q))
           Before(e) == e.i < Head(q).i
           NotBefore(e) == ~(e.i < Head(q).i)
       IN SelectSeq(rest, Before) \o <<Head(q)>> \o SelectSeq(rest, NotBefore)

\* for (const { v } of settled) if (v !== undefined) outArr.push(v)
PushDefined(out, q) ==
  LET Defined(e) == e.v # U
      kept == SelectSeq(q, Defined)
  IN out \o [k \in 1..Len(kept) |-> kept[k].v]

\* await p.toArray(), up to its first await: the probe of the first item,
\* then either the concurrent async path or the synchronous array kernel.
asyncToArray ==
  /\ am.phase = "new"
  /\ LET stateful == \E i \in 1..Len(am.ops) : am.ops[i] = "take"
         probing == ~stateful /\ Len(am.X) > 0
         p == FusedProbe(am.ops, 1, am.X[1])
     IN IF probing /\ p.async
        THEN am' = [am EXCEPT !.phase = "awaiting", !.pending = Batch(am.X, 1),
                              !.launched = Batch(am.X, 1)]
        ELSE am' = [am EXCEPT !.phase = "done",
                              !.out = AsyncKernel(am.ops, am.X, StartIndex(probing), 0,
                                                  IF probing /\ p.v # U THEN <<p.v>> ELSE <<>>)]
  /\ UNCHANGED <<objVars, ob, td, sw, cb, mg, cm, rt, wa, wm, fs, gd, kn, rd, ci, dp, pq, bc, ms>>

\* One of the per-item promises settles; `.then(v => ({ i, v }))` hands its
\* entry to Promise.all.
settle ==
  /\ am.phase = "awaiting"
  /\ \E i \in am.pending :
       am' = [am EXCEPT !.pending = @ \ {i},
                        !.order = Append(@, [i |-> i, v |-> fusedAsync(am.ops, 1, am.X[i])])]
  /\ UNCHANGED <<objVars, ob, td, sw, cb, mg, cm, rt, wa, wm, fs, gd, kn, rd, ci, dp, pq, bc, ms>>

\* `await Promise.all(pending)` resumes: sort, push, and either fill the
\* next batch or return outArr.
awaitAll ==
  /\ am.phase = "awaiting"
  /\ am.pending = {}
  /\ LET out == PushDefined(am.out, SortByIndex(am.order))
         lo == Cardinality(am.launched) + 1
     IN IF lo > Len(am.X)
        THEN am' = [am EXCEPT !.phase = "done", !.out = out, !.order = <<>>]
        ELSE am' = [am EXCEPT !.out = out, !.order = <<>>, !.pending = Batch(am.X, lo),
                              !.launched = @ \cup Batch(am.X, lo)]
  /\ UNCHANGED <<objVars, ob, td, sw, cb, mg, cm, rt, wa, wm, fs, gd, kn, rd, ci, dp, pq, bc, ms>>

\* p = nagare.from(X).<chain>
InitAsync ==
  /\ \E A \in SeqsUpTo(Vals, MaxLen), c \in AsyncChains :
       am = [phase |-> "new", X |-> A, ops |-> c, pending |-> {}, launched |-> {},
             order |-> <<>>, out |-> <<>>]
  /\ ob = None
  /\ td = None
  /\ sw = None
  /\ cb = None
  /\ mg = None
  /\ cm = None
  /\ rt = None
  /\ wa = None
  /\ wm = None
  /\ fs = None
  /\ gd = None
  /\ kn = None
  /\ rd = None
  /\ ci = None
  /\ dp = None
  /\ pq = None
  /\ bc = None
  /\ ms = None
  /\ NoPipe
  /\ NoCredit
  /\ NoRate

NextAsync ==
  \/ asyncToArray
  \/ settle
  \/ awaitAll

SpecAsync == InitAsync /\ [][NextAsync]_vars

\* ------------------------------------------------------------ observe
\* p.observe(next) for p = from(X) with the outer-most node holding no
\* operator ("none"), map(x => x + 1) ("map") or map(async x => x + 1)
\* ("amap").  The consumer loop is `for await (value of this)`, the test of
\* `active`, applyOperators(value) and the call of next.
ObserveOps == {"none", "map", "amap"}

\* One application of the node's operator.
Applied(op, v) == IF op = "none" THEN v ELSE MapFn("inc", v)

\* The loop's next turn: the iterator delivers its next value (the operator
\* already applied to the source item), or ends.  The loop leaves when the
\* subscription is no longer active; else it calls applyOperators on the
\* value and, unless that returned a promise, calls next with the result.
observeStep ==
  /\ ob.phase = "pull"
  /\ IF ob.i > Len(ob.X) \/ ~ob.active
     THEN ob' = [ob EXCEPT !.phase = "done", !.active = FALSE,
                           !.completed = ob.active]
     ELSE LET value == Applied(ob.op, ob.X[ob.i])
              result == Applied(ob.op, value)
          IN IF ob.op = "amap"
             THEN ob' = [ob EXCEPT !.phase = "awaiting", !.held = result, !.i = @ + 1]
             ELSE ob' = [ob EXCEPT !.calls = Append(@, result), !.i = @ + 1]
  /\ UNCHANGED <<objVars, am, td, sw, cb, mg, cm, rt, wa, wm, fs, gd, kn, rd, ci, dp, pq, bc, ms>>

\* `await processed` resumes: next(result), without looking at `active`.
observeResume ==
  /\ ob.phase = "awaiting"
  /\ ob' = [ob EXCEPT !.phase = "pull",
                      !.calls = Append(@, ob.held),
                      !.late = IF ob.unsubscribed THEN @ + 1 ELSE @]
  /\ UNCHANGED <<objVars, am, td, sw, cb, mg, cm, rt, wa, wm, fs, gd, kn, rd, ci, dp, pq, bc, ms>>

\* subscription.unsubscribe(), from any other task
unsubscribe ==
  /\ ob.phase \in {"pull", "awaiting", "done"}
  /\ ~ob.unsubscribed
  /\ ob' = [ob EXCEPT !.active = FALSE, !.unsubscribed = TRUE]
  /\ UNCHANGED <<objVars, am, td, sw, cb, mg, cm, rt, wa, wm, fs, gd, kn, rd, ci, dp, pq, bc, ms>>

\* const subscription = p.observe(next)
InitObserve ==
  /\ \E A \in SeqsUpTo(Vals, MaxLen), o \in ObserveOps :
       ob = [phase |-> "pull", X |-> A, op |-> o, i |-> 1, active |-> TRUE,
             unsubscribed |-> FALSE, completed |-> FALSE, held |-> U,
             calls |-> <<>>, late |-> 0]
  /\ am = None
  /\ td = None
  /\ sw = None
  /\ cb = None
  /\ mg = None
  /\ cm = None
  /\ rt = None
  /\ wa = None
  /\ wm = None
  /\ fs = None
  /\ gd = None
  /\ kn = None
  /\ rd = None
  /\ ci = None
  /\ dp = None
  /\ pq = None
  /\ bc = None
  /\ ms = None
  /\ NoPipe
  /\ NoCredit
  /\ NoRate

NextObserve ==
  \/ observeStep
  \/ observeResume
  \/ unsubscribe

SpecObserve == InitObserve /\ [][NextObserve]_vars

\* ------------------------------------------- debounce and bufferTime
\* The generator of debounce(ms)(src) or bufferTime(ms)(src): a producer
\* task (the async function called `consumer` in the source) pulls src and
\* fills outQueue, directly or through its timer; the generator body hands
\* outQueue to whoever iterates the stream.  Time is a clock `now` that
\* advances in steps of one; ms is TimerMs; a timeout or interval callback
\* runs once its deadline is reached and before the clock advances further.
\* Upstream items arrive at any time; arrivedAt and log record, for the
\* claims, when each item arrived and which item each timer or flush pushed.
TimedKinds == {"debounce", "bufferTime"}

\* pushOut(v): outQueue.push(v); notifyNext()
pushOut(t, v) ==
  [t EXCEPT !.outQueue = Append(@, v),
            !.notify = FALSE,
            !.cons = IF t.notify THEN "run" ELSE @]

notifyNext_silent(t) == [t EXCEPT !.notify = FALSE]

\* notifyNext(): resolve the promise the generator body awaits, if any
notifyNext(t) ==
  [t EXCEPT !.notify = FALSE, !.cons = IF t.notify THEN "run" ELSE @]

\* debounce pushes lastValue, the value of the latest upstream item.
pushLast(t, why) ==
  pushOut([t EXCEPT !.log = Append(@, [idx |-> t.i - 1, at |-> t.now, why |-> why])],
          t.lastValue)

Rearm_keepsOld(t) == IF t.timer THEN t.deadline ELSE t.now + TimerMs

\* debounce: `if (timer) clearTimeout(timer); timer = setTimeout(..., ms)`
Rearm(t) == t.now + TimerMs

\* bufferTime: startIntervalIfNeeded() leaves a running interval alone.
StartInterval(t) == IF t.interval THEN t.deadline ELSE t.now + TimerMs

\* The producer receives the next upstream item.
Received(t) ==
  [t EXCEPT !.i = @ + 1,
            !.arrivedAt = Append(@, t.now),
            !.pulledAfterStop = IF t.cons = "stopped" THEN @ + 1 ELSE @]

upstreamItem ==
  /\ td.prod = "pulling"
  /\ td.i <= Len(td.X)
  /\ td' = IF td.kind = "debounce"
           THEN [Received(td) EXCEPT !.lastValue = td.X[td.i], !.timer = TRUE,
                                     !.deadline = Rearm(td)]
           ELSE [Received(td) EXCEPT !.buf = Append(@, td.X[td.i]), !.interval = TRUE,
                                     !.deadline = StartInterval(td)]
  /\ UNCHANGED <<objVars, am, ob, sw, cb, mg, cm, rt, wa, wm, fs, gd, kn, rd, ci, dp, pq, bc, ms>>

\* The producer's `finally`: closed, timer or interval cleared.
Closed(t) ==
  [t EXCEPT !.prod = "ended", !.closed = TRUE, !.upFailed = t.faulty,
            !.timer = FALSE, !.interval = FALSE]

Flushed_noRemainder(t) == Closed(t)

\* The flush in the producer's `finally`.
Flushed(t) ==
  IF t.kind = "debounce"
  THEN IF t.timer /\ t.lastValue # U
       THEN [pushLast(Closed(t), "flush") EXCEPT !.lastValue = U]
       ELSE Closed(t)
  ELSE IF t.buf # <<>> THEN pushOut([Closed(t) EXCEPT !.buf = <<>>], t.buf)
       ELSE Closed(t)

\* Upstream has ended, or has thrown (faulty); the error then rejects the
\* producer's own promise, which nobody awaits.
upstreamEnd ==
  /\ td.prod = "pulling"
  /\ td.i > Len(td.X)
  /\ td' = notifyNext(Flushed(td))
  /\ UNCHANGED <<objVars, am, ob, sw, cb, mg, cm, rt, wa, wm, fs, gd, kn, rd, ci, dp, pq, bc, ms>>

\* debounce: the timeout set for the last value fires.
timerFires ==
  /\ td.kind = "debounce"
  /\ td.timer
  /\ td.now >= td.deadline
  /\ td' = IF td.lastValue # U
           THEN [pushLast(td, "timer") EXCEPT !.timer = FALSE, !.lastValue = U]
           ELSE [td EXCEPT !.timer = FALSE]
  /\ UNCHANGED <<objVars, am, ob, sw, cb, mg, cm, rt, wa, wm, fs, gd, kn, rd, ci, dp, pq, bc, ms>>

\* bufferTime: the interval callback runs; it pushes a non-empty buffer.
intervalTicks ==
  /\ td.kind = "bufferTime"
  /\ td.interval
  /\ td.now >= td.deadline
  /\ td' = IF td.buf # <<>>
           THEN pushOut([td EXCEPT !.buf = <<>>, !.deadline = @ + TimerMs], td.buf)
           ELSE [td EXCEPT !.deadline = @ + TimerMs]
  /\ UNCHANGED <<objVars, am, ob, sw, cb, mg, cm, rt, wa, wm, fs, gd, kn, rd, ci, dp, pq, bc, ms>>

\* Time passes; a due timeout or interval callback runs first.
tick ==
  /\ td.phase = "started"
  /\ td.now < MaxClock
  /\ (td.timer \/ td.interval) => td.now < td.deadline
  /\ td' = [td EXCEPT !.now = @ + 1]
  /\ UNCHANGED <<objVars, am, ob, sw, cb, mg, cm, rt, wa, wm, fs, gd, kn, rd, ci, dp, pq, bc, ms>>

\* One turn of the generator body's loop on behalf of the stream's consumer:
\* yield the head of outQueue, or finish when closed, or await the notifier.
timedNext ==
  /\ td.cons = "run"
  /\ td' = IF td.outQueue # <<>>
           THEN [td EXCEPT !.out = Append(@, Head(td.outQueue)), !.outQueue = Tail(@)]
           ELSE IF td.closed THEN [td EXCEPT !.cons = "done"]
           ELSE [td EXCEPT !.cons = "waiting", !.notify = TRUE]
  /\ UNCHANGED <<objVars, am, ob, sw, cb, mg, cm, rt, wa, wm, fs, gd, kn, rd, ci, dp, pq, bc, ms>>

\* The consumer stops iterating (break, return()) while the generator is
\* suspended at its yield: the generator ends there.
timedReturn ==
  /\ td.cons = "run"
  /\ td.out # <<>>
  /\ td' = [td EXCEPT !.cons = "stopped"]
  /\ UNCHANGED <<objVars, am, ob, sw, cb, mg, cm, rt, wa, wm, fs, gd, kn, rd, ci, dp, pq, bc, ms>>

\* The state when the first next() of the stream has started the producer.
InitTimed ==
  /\ \E k \in TimedKinds, A \in SeqsUpTo(Vals, MaxLen), f \in BOOLEAN :
       td = [phase |-> "started", kind |-> k, X |-> A, i |-> 1, faulty |-> f,
             upFailed |-> FALSE, lastValue |-> U, timer |-> FALSE, buf |-> <<>>,
             interval |-> FALSE, closed |-> FALSE, outQueue |-> <<>>,
             notify |-> FALSE, cons |-> "run", prod |-> "pulling", out |-> <<>>,
             pulledAfterStop |-> 0,
             now |-> 0, deadline |-> 0, arrivedAt |-> <<>>, log |-> <<>>]
  /\ am = None
  /\ ob = None
  /\ sw = None
  /\ cb = None
  /\ mg = None
  /\ cm = None
  /\ rt = None
  /\ wa = None
  /\ wm = None
  /\ fs = None
  /\ gd = None
  /\ kn = None
  /\ rd = None
  /\ ci = None
  /\ dp = None
  /\ pq = None
  /\ bc = None
  /\ ms = None
  /\ NoPipe
  /\ NoCredit
  /\ NoRate

NextTimed ==
  \/ upstreamItem
  \/ upstreamEnd
  \/ timerFires
  \/ intervalTicks
  \/ tick
  \/ timedNext
  \/ timedReturn

SpecTimed == InitTimed /\ [][NextTimed]_vars

\* The consumer iterates on: whenever the generator body can take a turn
\* (it holds a value to yield, or was woken through the notifier), it is
\* resumed.  Nothing is assumed of upstream or of the timers.
SpecTimedFair == SpecTimed /\ WF_vars(timedNext)

\* ---------------------------------------------------------- switchMap
\* switchMap(fn)(outer): the generator pulls an outer item, aborts the
\* controller of the previous one, creates the inner stream fn(value) and
\* loops over it until it is done or aborted; only then does the outer
\* `for await` ask for the next outer item.  The outer source has its
\* items ready (arrived) independently of the generator pulling them; every
\* inner stream yields InnerLen values.  An emission records the outer item
\* it derives from and the number of outer items arrived by then.

\* An outer item becomes available at the source (all at once for an array).
outerArrives ==
  /\ sw.phase = "running"
  /\ sw.arrived < Len(sw.X)
  /\ sw' = [sw EXCEPT !.arrived = @ + 1]
  /\ UNCHANGED <<objVars, am, ob, td, cb, mg, cm, rt, wa, wm, fs, gd, kn, rd, ci, dp, pq, bc, ms>>

\* for await (const value of nagare): the next outer item is taken, the
\* previous controller aborted, a new controller and inner iterator made.
switchOuter ==
  /\ sw.phase = "running"
  /\ sw.pc = "outer"
  /\ sw.pulled < sw.arrived
  /\ sw' = [sw EXCEPT !.pulled = @ + 1, !.pc = "inner", !.j = 0,
                      !.aborts = IF sw.pulled > 0 THEN @ + 1 ELSE @,
                      !.aborted = FALSE]
  /\ UNCHANGED <<objVars, am, ob, td, cb, mg, cm, rt, wa, wm, fs, gd, kn, rd, ci, dp, pq, bc, ms>>

\* One turn of `while (!done && !aborted)`: await currentIterator.next() and
\* yield its value, or leave the loop when the inner stream is done.
innerNext ==
  /\ sw.phase = "running"
  /\ sw.pc = "inner"
  /\ IF sw.aborted THEN sw' = [sw EXCEPT !.pc = "outer"]
     ELSE IF sw.j < InnerLen
     THEN sw' = [sw EXCEPT !.j = @ + 1,
                           !.out = Append(@, [k |-> sw.pulled, n |-> sw.j + 1,
                                              v |-> sw.X[sw.pulled],
                                              arrived |-> sw.arrived])]
     ELSE sw' = [sw EXCEPT !.pc = "outer"]
  /\ UNCHANGED <<objVars, am, ob, td, cb, mg, cm, rt, wa, wm, fs, gd, kn, rd, ci, dp, pq, bc, ms>>

\* The outer source is exhausted: the generator returns.
switchDone ==
  /\ sw.phase = "running"
  /\ sw.pc = "outer"
  /\ sw.pulled = Len(sw.X)
  /\ sw' = [sw EXCEPT !.phase = "done"]
  /\ UNCHANGED <<objVars, am, ob, td, cb, mg, cm, rt, wa, wm, fs, gd, kn, rd, ci, dp, pq, bc, ms>>

InitSwitch ==
  /\ \E A \in SeqsUpTo(Vals, MaxLen) :
       sw = [phase |-> "running", X |-> A, arrived |-> 0, pulled |-> 0, pc |-> "outer",
             j |-> 0, aborted |-> FALSE, aborts |-> 0, out |-> <<>>]
  /\ am = None
  /\ ob = None
  /\ td = None
  /\ cb = None
  /\ mg = None
  /\ cm = None
  /\ rt = None
  /\ wa = None
  /\ wm = None
  /\ fs = None
  /\ gd = None
  /\ kn = None
  /\ rd = None
  /\ ci = None
  /\ dp = None
  /\ pq = None
  /\ bc = None
  /\ ms = None
  /\ NoPipe
  /\ NoCredit
  /\ NoRate

NextSwitch ==
  \/ outerArrives
  \/ switchOuter
  \/ innerNext
  \/ switchDone

SpecSwitch == InitSwitch /\ [][NextSwitch]_vars

\* ------------------------------------------------------ combine, merge
\* Both take NumSources sources; source s yields Lens[s] items and is then
\* done.  The operators never look into an item, so the n-th item of source s
\* is the record Item(s, n).
Sources == 1..NumSources
SourceLens == [Sources -> 0..MaxSourceLen]
Item(s, n) == [src |-> s, n |-> n]

\* it.next() of source s: the next item, or done for ever after the last one.
IterNext(lens, idx, s) == IF idx[s] < lens[s] THEN "value" ELSE "done"

\* nagare.combine: iterators[s].next() of the current round settles.
combineNext(s) ==
  /\ cb.phase = "running"
  /\ cb.res[s] = "pending"
  /\ cb' = [cb EXCEPT !.res[s] = IterNext(cb.Lens, cb.idx, s),
                      !.idx[s] = IF @ < cb.Lens[s] THEN @ + 1 ELSE @]
  /\ UNCHANGED <<objVars, am, ob, td, sw, mg, cm, rt, wa, wm, fs, gd, kn, rd, ci, dp, pq, bc, ms>>

\* values / hasValues after the `for (const { i, r } of results)` loop.
CombineValues(c) ==
  [s \in Sources |-> IF c.res[s] = "value" THEN Item(s, c.idx[s]) ELSE c.values[s]]
CombineHas(c) == [s \in Sources |-> c.res[s] = "value" \/ c.hasValues[s]]

\* Promise.all has every result of the round: store the values, break when
\* every source was done, yield the tuple when every slot has a value, and
\* start the next round.
combineRound ==
  /\ cb.phase = "running"
  /\ \A s \in Sources : cb.res[s] # "pending"
  /\ IF \A s \in Sources : cb.res[s] = "done"
     THEN cb' = [cb EXCEPT !.phase = "done"]
     ELSE cb' = [cb EXCEPT !.values = CombineValues(cb),
                           !.hasValues = CombineHas(cb),
                           !.out = IF \A s \in Sources : CombineHas(cb)[s]
                                   THEN Append(@, CombineValues(cb)) ELSE @,
                           !.res = [s \in Sources |-> "pending"]]
  /\ UNCHANGED <<objVars, am, ob, td, sw, mg, cm, rt, wa, wm, fs, gd, kn, rd, ci, dp, pq, bc, ms>>

InitCombine ==
  /\ \E L \in SourceLens :
       cb = [phase |-> "running", Lens |-> L, idx |-> [s \in Sources |-> 0],
             res |-> [s \in Sources |-> "pending"],
             values |-> [s \in Sources |-> Item(s, 0)],
             hasValues |-> [s \in Sources |-> FALSE], out |-> <<>>]
  /\ am = None
  /\ ob = None
  /\ td = None
  /\ sw = None
  /\ mg = None
  /\ cm = None
  /\ rt = None
  /\ wa = None
  /\ wm = None
  /\ fs = None
  /\ gd = None
  /\ kn = None
  /\ rd = None
  /\ ci = None
  /\ dp = None
  /\ pq = None
  /\ bc = None
  /\ ms = None
  /\ NoPipe
  /\ NoCredit
  /\ NoRate

NextCombine ==
  \/ \E s \in Sources : combineNext(s)
  \/ combineRound

SpecCombine == InitCombine /\ [][NextCombine]_vars

\* The sources of merge: its interleavings grow much faster than the rounds
\* of combine, so its sources are shorter.
MergeLens == [Sources -> 0..MaxMergeLen]

\* Nagare.merge keeps one outstanding next() per source in activePromises;
\* act[s] is the state of that promise: "pending", settled with a "value" or
\* with "done", or "gone" once deleted from the map.

Requeue_forgotten(act, s) == [act EXCEPT ![s] = "gone"]

\* activePromises.set(i, iterators[i].next()...) after a yield
Requeue(act, s) == [act EXCEPT ![s] = "pending"]

\* The outstanding next() of source s settles.
mergeSettles(s) ==
  /\ mg.phase = "running"
  /\ mg.act[s] = "pending"
  /\ mg' = [mg EXCEPT !.act[s] = IterNext(mg.Lens, mg.idx, s),
                      !.idx[s] = IF @ < mg.Lens[s] THEN @ + 1 ELSE @]
  /\ UNCHANGED <<objVars, am, ob, td, sw, cb, cm, rt, wa, wm, fs, gd, kn, rd, ci, dp, pq, bc, ms>>

\* One turn of the while loop: Promise.race hands over a settled result of
\* source s; a done result removes the source, a value is yielded and the
\* next value of the same source is requested.
mergeRace(s) ==
  /\ mg.phase = "running"
  /\ mg.act[s] \in {"value", "done"}
  /\ IF mg.act[s] = "done"
     THEN mg' = [mg EXCEPT !.act[s] = "gone"]
     ELSE mg' = [mg EXCEPT !.out = Append(@, Item(s, mg.idx[s])),
                           !.act = Requeue(@, s)]
  /\ UNCHANGED <<objVars, am, ob, td, sw, cb, cm, rt, wa, wm, fs, gd, kn, rd, ci, dp, pq, bc, ms>>

\* activePromises.size = 0: the generator returns.
mergeDone ==
  /\ mg.phase = "running"
  /\ \A s \in Sources : mg.act[s] = "gone"
  /\ mg' = [mg EXCEPT !.phase = "done"]
  /\ UNCHANGED <<objVars, am, ob, td, sw, cb, cm, rt, wa, wm, fs, gd, kn, rd, ci, dp, pq, bc, ms>>

InitMerge ==
  /\ \E L \in MergeLens :
       mg = [phase |-> "running", Lens |-> L, idx |-> [s \in Sources |-> 0],
             act |-> [s \in Sources |-> "pending"], out |-> <<>>]
  /\ am = None
  /\ ob = None
  /\ td = None
  /\ sw = None
  /\ cb = None
  /\ cm = None
  /\ rt = None
  /\ wa = None
  /\ wm = None
  /\ fs = None
  /\ gd = None
  /\ kn = None
  /\ rd = None
  /\ ci = None
  /\ dp = None
  /\ pq = None
  /\ bc = None
  /\ ms = None
  /\ NoPipe
  /\ NoCredit
  /\ NoRate

NextMerge ==
  \/ \E s \in Sources : mergeSettles(s)
  \/ \E s \in Sources : mergeRace(s)
  \/ mergeDone

SpecMerge == InitMerge /\ [][NextMerge]_vars

\* The sources are finite streams that settle every next(), and the merged
\* stream is read to its end (toArray): no enabled step waits for ever.
SpecMergeFair ==
  /\ SpecMerge
  /\ \A s \in Sources : WF_vars(mergeSettles(s)) /\ WF_vars(mergeRace(s))
  /\ WF_vars(mergeDone)

\* ---------------------------------------------------------- concatMap
\* concatMap(fn)(outer).  fn maps an outer value x to an inner sequence of
\* lenOf[x] values, either as a plain array returned synchronously
\* ("syncArray") or as a stream returned by an async function
\* ("asyncStream").  The n-th value of the inner sequence of the k-th outer
\* item is the record Inner(k, len)[n].
FnKinds == {"syncArray", "asyncStream"}
OuterKinds == {"array", "stream"}
InnerLens == [Vals -> 0..InnerLen]
Inner(k, len) == [n \in 1..len |-> [k |-> k, n |-> n]]

\* The eager loop: the inner arrays of items from..Len(A), one after another.
RECURSIVE EagerCopy(_, _, _)
EagerCopy(A, lenOf, from) ==
  IF from > Len(A) THEN <<>>
  ELSE Inner(from, lenOf[A[from]]) \o EagerCopy(A, lenOf, from + 1)

\* The eager fast path applies: array source without operators, a function
\* that is not async, a non-empty source, an array for the first item.
EagerApplies(c) == c.outer = "array" /\ c.fn = "syncArray" /\ Len(c.X) > 0

\* `if (arr.length !== innerLen) throw new Error('varying')`
Varying(c) == \E i \in 2..Len(c.X) : c.lenOf[c.X[i]] # c.lenOf[c.X[1]]

\* The call concatMap(fn)(nagare): the eager path returns a stream over the
\* array it built, or the empty stream when the first inner array is empty;
\* any throw inside it, and every other case, leaves the generator.
concatMapCall ==
  /\ cm.phase = "new"
  /\ IF EagerApplies(cm) /\ cm.lenOf[cm.X[1]] = 0
     THEN cm' = [cm EXCEPT !.phase = "done", !.path = "eager"]
     ELSE IF EagerApplies(cm) /\ ~Varying(cm)
     THEN cm' = [cm EXCEPT !.phase = "done", !.path = "eager",
                           !.out = EagerCopy(cm.X, cm.lenOf, 1)]
     ELSE cm' = [cm EXCEPT !.phase = "gen", !.path = "generator"]
  /\ UNCHANGED <<objVars, am, ob, td, sw, cb, mg, rt, wa, wm, fs, gd, kn, rd, ci, dp, pq, bc, ms>>

\* The generator takes the next outer item and awaits fn(value).
concatOuter ==
  /\ cm.phase = "gen"
  /\ cm.pc = "outer"
  /\ cm.i < Len(cm.X)
  /\ cm' = [cm EXCEPT !.i = @ + 1, !.j = 0, !.pc = "inner"]
  /\ UNCHANGED <<objVars, am, ob, td, sw, cb, mg, rt, wa, wm, fs, gd, kn, rd, ci, dp, pq, bc, ms>>

\* The inner loop yields the next inner value, or ends with the inner stream.
concatInner ==
  /\ cm.phase = "gen"
  /\ cm.pc = "inner"
  /\ IF cm.j < cm.lenOf[cm.X[cm.i]]
     THEN cm' = [cm EXCEPT !.j = @ + 1,
                           !.out = Append(@, [k |-> cm.i, n |-> cm.j + 1])]
     ELSE cm' = [cm EXCEPT !.pc = "outer"]
  /\ UNCHANGED <<objVars, am, ob, td, sw, cb, mg, rt, wa, wm, fs, gd, kn, rd, ci, dp, pq, bc, ms>>

\* The outer source is exhausted: the generator returns.
concatDone ==
  /\ cm.phase = "gen"
  /\ cm.pc = "outer"
  /\ cm.i = Len(cm.X)
  /\ cm' = [cm EXCEPT !.phase = "done"]
  /\ UNCHANGED <<objVars, am, ob, td, sw, cb, mg, rt, wa, wm, fs, gd, kn, rd, ci, dp, pq, bc, ms>>

InitConcat ==
  /\ \E A \in SeqsUpTo(Vals, MaxLen), L \in InnerLens, f \in FnKinds, o \in OuterKinds :
       cm = [phase |-> "new", X |-> A, lenOf |-> L, fn |-> f, outer |-> o,
             path |-> "none", i |-> 0, j |-> 0, pc |-> "outer", out |-> <<>>]
  /\ am = None
  /\ ob = None
  /\ td = None
  /\ sw = None
  /\ cb = None
  /\ mg = None
  /\ rt = None
  /\ wa = None
  /\ wm = None
  /\ fs = None
  /\ gd = None
  /\ kn = None
  /\ rd = None
  /\ ci = None
  /\ dp = None
  /\ pq = None
  /\ bc = None
  /\ ms = None
  /\ NoPipe
  /\ NoCredit
  /\ NoRate

NextConcat ==
  \/ concatMapCall
  \/ concatOuter
  \/ concatInner
  \/ concatDone

SpecConcat == InitConcat /\ [][NextConcat]_vars

\* -------------------------------------------------------------- retry
\* retry(maxRetries, delayMs)(src): the generator yields each upstream value
\* inside try/catch.  The consumer resumes the generator at its yield either
\* with next() or with throw(error); the errors thrown are numbered in the
\* order of the throws.  emits logs every yield: the item, the number of
\* retries so far and the delay awaited before it.

RetryDelay_constant(delayMs, retries) == delayMs

\* setTimeout(resolve, delayMs * retries)
RetryDelay(delayMs, retries) == delayMs * retries

\* `yield value` for item i after the given wait.
Yielded(r, i, wait) ==
  [r EXCEPT !.i = i, !.pc = "yield",
            !.emits = Append(@, [i |-> i, k |-> r.retries, wait |-> wait])]

\* for await (const value of nagare): the first or next item is yielded, or
\* the generator returns at the end of upstream.
retryPull ==
  /\ rt.phase = "running"
  /\ rt.pc = "pull"
  /\ IF rt.i < Len(rt.X)
     THEN rt' = Yielded([rt EXCEPT !.retries = 0, !.lastError = 0], rt.i + 1, 0)
     ELSE rt' = [rt EXCEPT !.phase = "done"]
  /\ UNCHANGED <<objVars, am, ob, td, sw, cb, mg, cm, wa, wm, fs, gd, kn, rd, ci, dp, pq, bc, ms>>

\* The consumer calls next(): the yield returns, `break`, then
\* `retries > maxRetries` is false.
retryNext ==
  /\ rt.phase = "running"
  /\ rt.pc = "yield"
  /\ rt' = [rt EXCEPT !.pc = "pull"]
  /\ UNCHANGED <<objVars, am, ob, td, sw, cb, mg, cm, wa, wm, fs, gd, kn, rd, ci, dp, pq, bc, ms>>

\* The consumer calls throw(error): the catch block counts the retry and
\* either starts the wait or leaves the loop, after which lastError is thrown.
retryThrow ==
  /\ rt.phase = "running"
  /\ rt.pc = "yield"
  /\ IF rt.retries + 1 <= rt.max
     THEN rt' = [rt EXCEPT !.throws = @ + 1, !.lastError = rt.throws + 1,
                           !.retries = @ + 1, !.pc = "wait",
                           !.wait = RetryDelay(rt.delay, rt.retries + 1)]
     ELSE rt' = [rt EXCEPT !.throws = @ + 1, !.lastError = rt.throws + 1,
                           !.retries = @ + 1, !.phase = "failed",
                           !.error = rt.throws + 1]
  /\ UNCHANGED <<objVars, am, ob, td, sw, cb, mg, cm, wa, wm, fs, gd, kn, rd, ci, dp, pq, bc, ms>>

\* The wait is over: the loop yields the same value again.
retryResume ==
  /\ rt.phase = "running"
  /\ rt.pc = "wait"
  /\ rt' = Yielded(rt, rt.i, rt.wait)
  /\ UNCHANGED <<objVars, am, ob, td, sw, cb, mg, cm, wa, wm, fs, gd, kn, rd, ci, dp, pq, bc, ms>>

InitRetry ==
  /\ \E A \in SeqsUpTo(Vals, MaxLen), m \in 0..MaxRetries, d \in 1..MaxDelay :
       rt = [phase |-> "running", X |-> A, max |-> m, delay |-> d, i |-> 0,
             pc |-> "pull", retries |-> 0, lastError |-> 0, throws |-> 0,
             wait |-> 0, error |-> 0, emits |-> <<>>]
  /\ am = None
  /\ ob = None
  /\ td = None
  /\ sw = None
  /\ cb = None
  /\ mg = None
  /\ cm = None
  /\ wa = None
  /\ wm = None
  /\ fs = None
  /\ gd = None
  /\ kn = None
  /\ rd = None
  /\ ci = None
  /\ dp = None
  /\ pq = None
  /\ bc = None
  /\ ms = None
  /\ NoPipe
  /\ NoCredit
  /\ NoRate

NextRetry ==
  \/ retryPull
  \/ retryNext
  \/ retryThrow
  \/ retryResume

SpecRetry == InitRetry /\ [][NextRetry]_vars

\* -------------------------------------------------- windowedAggregate
\* Numbers are IEEE doubles in the source.  The model keeps their rounding
\* at a small scale: integers up to FloatExact = 2^MantissaBits are exact
\* (2^53 in the source), larger magnitudes are rounded to the nearest
\* representable value, ties to the even mantissa.
FloatExact == 2 ^ MantissaBits

\* The distance of adjacent representable values around magnitude a.
Spacing(a) ==
  IF a <= FloatExact THEN 1
  ELSE IF a <= 2 * FloatExact THEN 2
  ELSE IF a <= 4 * FloatExact THEN 4
  ELSE 8

\* Round magnitude a to a multiple of s, ties to the even multiple.
RoundTo(a, s) ==
  IF 2 * (a % s) < s THEN (a \div s) * s
  ELSE IF 2 * (a % s) > s THEN ((a \div s) + 1) * s
  ELSE IF (a \div s) % 2 = 0 THEN (a \div s) * s ELSE ((a \div s) + 1) * s

\* The double nearest to the exact result x.
Fl(x) == IF x < 0 THEN 0 - RoundTo(0 - x, Spacing(0 - x)) ELSE RoundTo(x, Spacing(x))

\* a + b and a - b on doubles
FlAdd(a, b) == Fl(a + b)
FlSub(a, b) == Fl(a - b)

WinOps == {"sum", "mean", "min", "max"}
WinVals == {1, 2, FloatExact}

\* pushMax / pushMin: drop the dominated tail of the deque, append the pair.
RECURSIVE DropTail(_, _, _)
DropTail(dq, val, isMax) ==
  IF dq = <<>> THEN dq
  ELSE IF (isMax /\ dq[Len(dq)][1] <= val) \/ (~isMax /\ dq[Len(dq)][1] >= val)
  THEN DropTail(SubSeq(dq, 1, Len(dq) - 1), val, isMax)
  ELSE dq
pushDeque(dq, val, index, isMax) == Append(DropTail(dq, val, isMax), <<val, index>>)

\* evictOld: drop heads older than the window.
RECURSIVE evictOld(_, _)
evictOld(dq, oldestIdx) ==
  IF dq # <<>> /\ dq[1][2] < oldestIdx THEN evictOld(Tail(dq), oldestIdx) ELSE dq

\* The full window slides: sum += value - oldest
SlidSum(w, value) == FlAdd(w.sum, FlSub(value, w.buf[w.start]))

\* The circular buffer and the running sum after one more value.
Buffered(w, value) ==
  IF w.count < w.W
  THEN [w EXCEPT !.buf[(w.start + w.count) % w.W] = value,
                 !.count = @ + 1,
                 !.sum = FlAdd(@, value)]
  ELSE [w EXCEPT !.buf[w.start] = value,
                 !.start = (@ + 1) % w.W,
                 !.sum = SlidSum(w, value)]

\* The deques after pushMax, pushMin, evictOld; then index++.
Dequeued(w, value) ==
  [w EXCEPT !.dqMax = evictOld(pushDeque(@, value, w.index, TRUE), w.index - w.W + 1),
            !.dqMin = evictOld(pushDeque(@, value, w.index, FALSE), w.index - w.W + 1),
            !.index = @ + 1]

\* The `switch (operation)`; the mean is kept as the quotient sum / W.
WinResult(w) ==
  IF w.op = "mean" THEN [num |-> w.sum, den |-> w.W]
  ELSE IF w.op = "sum" THEN [num |-> w.sum, den |-> 1]
  ELSE IF w.op = "max" THEN [num |-> w.dqMax[1][1], den |-> 1]
  ELSE [num |-> w.dqMin[1][1], den |-> 1]

Emitted(w) == IF w.count = w.W THEN [w EXCEPT !.out = Append(@, WinResult(w))] ELSE w

\* One turn of `for await (const value of self)`.
windowItem ==
  /\ wa.phase = "running"
  /\ wa.i < Len(wa.X)
  /\ wa' = Emitted(Dequeued(Buffered([wa EXCEPT !.i = @ + 1], wa.X[wa.i + 1]),
                            wa.X[wa.i + 1]))
  /\ UNCHANGED <<objVars, am, ob, td, sw, cb, mg, cm, rt, wm, fs, gd, kn, rd, ci, dp, pq, bc, ms>>

\* The input is exhausted: the generator returns.
windowEnd ==
  /\ wa.phase = "running"
  /\ wa.i = Len(wa.X)
  /\ wa' = [wa EXCEPT !.phase = "done"]
  /\ UNCHANGED <<objVars, am, ob, td, sw, cb, mg, cm, rt, wm, fs, gd, kn, rd, ci, dp, pq, bc, ms>>

InitWindow ==
  /\ \E A \in SeqsUpTo(WinVals, MaxLen), W \in 1..MaxW, o \in WinOps :
       wa = [phase |-> "running", X |-> A, W |-> W, op |-> o, i |-> 0,
             buf |-> [k \in 0..(W - 1) |-> 0], start |-> 0, count |-> 0, sum |-> 0,
             dqMax |-> <<>>, dqMin |-> <<>>, index |-> 0, out |-> <<>>]
  /\ am = None
  /\ ob = None
  /\ td = None
  /\ sw = None
  /\ cb = None
  /\ mg = None
  /\ cm = None
  /\ rt = None
  /\ wm = None
  /\ fs = None
  /\ gd = None
  /\ kn = None
  /\ rd = None
  /\ ci = None
  /\ dp = None
  /\ pq = None
  /\ bc = None
  /\ ms = None
  /\ NoPipe
  /\ NoCredit
  /\ NoRate

NextWindow ==
  \/ windowItem
  \/ windowEnd

SpecWindow == InitWindow /\ [][NextWindow]_vars

\* ------------------------------------------------- loadWasm, mapWasm
\* The module-level state of wasm-loader.ts (wasmModule, loadPromise) in one
\* environment, and the pipelines built by mapWasm(kernelName).  The
\* environment fixes whether it is a test environment, whether
\* NAGARE_TEST_REAL_WASM forces the real module, the platform branch taken
\* and whether the generated package can be imported and initialised.
Platforms == {"browser", "node", "other"}
WasmEnvs == [test : BOOLEAN, forceReal : BOOLEAN, platform : Platforms, importOk : BOOLEAN]
KernelNames == {"f32x_map_mul_add", "no_such_kernel"}
ItemKinds == {"Float32Array", "other"}

\* The module the body of loadPromise leaves in wasmModule: the mock, the
\* real package, or null when it throws.
Loaded(env) ==
  IF env.test /\ ~env.forceReal THEN "mock"
  ELSE IF env.importOk THEN "real"
  ELSE IF env.platform = "node" /\ env.test THEN "mock"
  ELSE "null"

\* loadWasm(): nothing to do with a module present, otherwise await the
\* existing loadPromise or create it.
loadWasm(w) ==
  IF w.wasmModule # "null" THEN w
  ELSE IF w.loadPromise # "none" THEN w
  ELSE [w EXCEPT !.wasmModule = Loaded(w.env),
                 !.loadPromise = IF Loaded(w.env) = "null" THEN "rejected" ELSE "fulfilled"]

\* loadWasm() throws to its caller: the awaited loadPromise is rejected.
LoadThrows(w) == w.wasmModule = "null" /\ w.loadPromise = "rejected"

\* The module has a function process_float32_batch.
HasBatch(m) == m = "real"

\* The operator mapWasm pushes, called on one item.  What the real
\* process_float32_batch does with a kernel name it does not know is not
\* part of the TypeScript sources: it may throw or return.
OpWasmOutcomes(m, kernel, item) ==
  IF m = "null" THEN {"threw"}
  ELSE IF item # "Float32Array" THEN {"value"}
  ELSE IF ~HasBatch(m) THEN {"threw"}
  ELSE IF kernel = "f32x_map_mul_add" THEN {"value"}
  ELSE {"threw", "value"}

\* await pipeline.mapWasm(kernelName): rejected when loadWasm throws,
\* otherwise a new pipeline with the operator appended.
mapWasm ==
  /\ wm.phase = "idle"
  /\ Len(wm.calls) < MaxWasmCalls
  /\ \E k \in KernelNames :
       wm' = [loadWasm(wm) EXCEPT
                !.calls = Append(@, [kernel |-> k,
                                     result |-> IF LoadThrows(loadWasm(wm))
                                                THEN "rejected" ELSE "built",
                                     module |-> loadWasm(wm).wasmModule])]
  /\ UNCHANGED <<objVars, am, ob, td, sw, cb, mg, cm, rt, wa, fs, gd, kn, rd, ci, dp, pq, bc, ms>>

\* An item reaches the operator of a pipeline that mapWasm has built.
wasmItem ==
  /\ wm.phase = "idle"
  /\ Len(wm.items) < MaxWasmItems
  /\ \E c \in 1..Len(wm.calls), it \in ItemKinds :
       /\ wm.calls[c].result = "built"
       /\ \E o \in OpWasmOutcomes(wm.wasmModule, wm.calls[c].kernel, it) :
            wm' = [wm EXCEPT !.items = Append(@, [call |-> c, item |-> it, outcome |-> o])]
  /\ UNCHANGED <<objVars, am, ob, td, sw, cb, mg, cm, rt, wa, fs, gd, kn, rd, ci, dp, pq, bc, ms>>

InitWasm ==
  /\ \E e \in WasmEnvs :
       wm = [phase |-> "idle", env |-> e, wasmModule |-> "null", loadPromise |-> "none",
             calls |-> <<>>, items |-> <<>>]
  /\ am = None
  /\ ob = None
  /\ td = None
  /\ sw = None
  /\ cb = None
  /\ mg = None
  /\ cm = None
  /\ rt = None
  /\ wa = None
  /\ fs = None
  /\ gd = None
  /\ kn = None
  /\ rd = None
  /\ ci = None
  /\ dp = None
  /\ pq = None
  /\ bc = None
  /\ ms = None
  /\ NoPipe
  /\ NoCredit
  /\ NoRate

NextWasm ==
  \/ mapWasm
  \/ wasmItem

SpecWasm == InitWasm /\ [][NextWasm]_vars

\* ---------------------------------------------------- FrameSerializer
\* A FrameSerializer: its private sequence counter, and the frames produced
\* so far in the order of the serialize calls.  A frame is logged with its
\* sequence number, its payload and the number of reset calls before it.
Payloads == {"data", "control"}

NextSequence_stuck(sequence) == sequence

\* `sequence: this.sequence++`: the counter after the frame took its number
NextSequence(sequence) == sequence + 1

\* serialize(payload): the frame gets the current sequence number before the
\* first await; the encoding does not change it.
serialize ==
  /\ fs.phase = "live"
  /\ Len(fs.frames) < MaxFrames
  /\ \E p \in Payloads :
       fs' = [fs EXCEPT !.sequence = NextSequence(@),
                        !.frames = Append(@, [sequence |-> fs.sequence, payload |-> p,
                                              resets |-> fs.resets])]
  /\ UNCHANGED <<objVars, am, ob, td, sw, cb, mg, cm, rt, wa, wm, gd, kn, rd, ci, dp, pq, bc, ms>>

\* reset(): this.sequence = 0
resetSerializer ==
  /\ fs.phase = "live"
  /\ fs.resets < MaxResets
  /\ fs' = [fs EXCEPT !.sequence = 0, !.resets = @ + 1]
  /\ UNCHANGED <<objVars, am, ob, td, sw, cb, mg, cm, rt, wa, wm, gd, kn, rd, ci, dp, pq, bc, ms>>

\* new FrameSerializer(usePostcard)
InitSerializer ==
  /\ \E u \in BOOLEAN :
       fs = [phase |-> "live", usePostcard |-> u, sequence |-> 0, resets |-> 0,
             frames |-> <<>>]
  /\ am = None
  /\ ob = None
  /\ td = None
  /\ sw = None
  /\ cb = None
  /\ mg = None
  /\ cm = None
  /\ rt = None
  /\ wa = None
  /\ wm = None
  /\ gd = None
  /\ kn = None
  /\ rd = None
  /\ ci = None
  /\ dp = None
  /\ pq = None
  /\ bc = None
  /\ ms = None
  /\ NoPipe
  /\ NoCredit
  /\ NoRate

NextSerializer ==
  \/ serialize
  \/ resetSerializer

SpecSerializer == InitSerializer /\ [][NextSerializer]_vars

\* ------------------------------- guarded fused run, ASYNC_DETECTED hand-off
\* A pipeline over an array whose flattened operators contain one async
\* stage "amap" = map(async x => x + 1), besides "inc" = map(x => x + 1),
\* "scan" = scan(+, 0), "take" = take(MaxN) and "skip" = skip(1).  The
\* closures of scan, take and skip keep their state (acc, taken, skipped) in
\* the operator objects, which every path below shares.
GuardChains ==
  {<<"amap">>, <<"inc", "amap">>, <<"scan", "amap">>, <<"amap", "scan">>,
   <<"take", "amap">>, <<"skip", "amap">>}
Policies == {"Drop", "Rescue", "Terminate"}
StatefulChain(ops) == \E k \in 1..Len(ops) : ops[k] \in {"scan", "take", "skip"}
FreshState == [acc |-> 0, taken |-> 0, skipped |-> 0]

\* What the rescue handler returns, whatever it is handed.
Recovered == 9

\* One operator closure called on c: its result and the closure state after.
\* An async stage returns a promise (tag "promise") that fulfils with v.
SyncOp(kind, st, c) ==
  CASE kind = "inc" -> [tag |-> "value", v |-> c + 1, st |-> st]
    [] kind = "amap" -> [tag |-> "promise", v |-> c + 1, st |-> st]
    [] kind = "scan" -> [tag |-> "value", v |-> st.acc + c, st |-> [st EXCEPT !.acc = @ + c]]
    [] kind = "take" ->
         IF st.taken >= MaxN THEN [tag |-> "undefined", v |-> U, st |-> st]
         ELSE [tag |-> "value", v |-> c, st |-> [st EXCEPT !.taken = @ + 1]]
    [] OTHER ->
         IF st.skipped < 1 THEN [tag |-> "undefined", v |-> U, st |-> [st EXCEPT !.skipped = @ + 1]]
         ELSE [tag |-> "value", v |-> c, st |-> st]

\* The loop `for (i...) { r = ops[i](current); if (r instanceof Promise) ...`
\* up to the first promise or undefined.
RECURSIVE RunSync(_, _, _, _)
RunSync(ops, k, st, c) ==
  IF k > Len(ops) THEN [tag |-> "value", v |-> c, st |-> st]
  ELSE IF SyncOp(ops[k], st, c).tag = "value"
       THEN RunSync(ops, k + 1, SyncOp(ops[k], st, c).st, SyncOp(ops[k], st, c).v)
       ELSE SyncOp(ops[k], st, c)

\* The same loop with every promise awaited (compileOperatorChainAsync,
\* applyOperatorsAsync).
RECURSIVE RunAsync(_, _, _, _)
RunAsync(ops, k, st, c) ==
  IF k > Len(ops) THEN [tag |-> "value", v |-> c, st |-> st]
  ELSE IF SyncOp(ops[k], st, c).tag = "undefined"
       THEN SyncOp(ops[k], st, c)
       ELSE RunAsync(ops, k + 1, SyncOp(ops[k], st, c).st, SyncOp(ops[k], st, c).v)

\* The function compileOperatorChain returns, called on c.  With a handler or
\* terminateOnError it is the guarded closure, whose `throw ASYNC_DETECTED`
\* lies inside the try: the catch hands the sentinel to the handler when
\* there is one and rethrows it otherwise.  Without either (Drop) it is the
\* unguarded function, which lets the sentinel escape.
Raised(r) ==
  [tag |-> "sentinel", v |-> U, st |-> r.st, promised |-> TRUE, handlerArg |-> "none"]
Handled(r) ==
  [tag |-> "value", v |-> Recovered, st |-> r.st, promised |-> TRUE,
   handlerArg |-> "ASYNC_DETECTED"]
Returned(r) ==
  [tag |-> r.tag, v |-> r.v, st |-> r.st, promised |-> FALSE, handlerArg |-> "none"]
Fused(ops, policy, st, c) ==
  IF RunSync(ops, 1, st, c).tag # "promise" THEN Returned(RunSync(ops, 1, st, c))
  ELSE IF policy = "Rescue" THEN Handled(RunSync(ops, 1, st, c))
  ELSE Raised(RunSync(ops, 1, st, c))

\* applyOperators(value): the operators run synchronously; at the first
\* promise applyOperatorsAsync(value) starts again from the first operator.
ApplyOperators(ops, st, c) ==
  IF RunSync(ops, 1, st, c).tag = "promise"
  THEN RunAsync(ops, 1, RunSync(ops, 1, st, c).st, c)
  ELSE RunSync(ops, 1, st, c)

\* this.source.indexOf(value) within the array that starts at item from
IndexOf(A, from, value) == CHOOSE i \in from..Len(A) :
                             A[i] = value /\ \A j \in from..(i - 1) : A[j] # value

PushIf(out, r) == IF r.tag = "value" THEN Append(out, r.v) ELSE out

\* One turn of the loop over the array: fused(data[i]).  A result is
\* yielded or pushed.  On ASYNC_DETECTED the loop hands the items from i on
\* to `rest`, a pipeline over the same operator closures whose iteration
\* enters this very loop again at item i, one level deeper; when the nesting
\* has used up the stack the innermost level falls through to the generic
\* path.  Without handler or terminateOnError only the first item of a
\* chain without scan, take or skip is run through fused.
guardedCall ==
  /\ gd.phase = "sync"
  /\ gd.p <= Len(gd.X)
  /\ gd.policy = "Drop" => gd.p = 1
  /\ gd' = [gd EXCEPT
       !.st = Fused(gd.ops, gd.policy, gd.st, gd.X[gd.p]).st,
       !.lastCall = Fused(gd.ops, gd.policy, gd.st, gd.X[gd.p]),
       !.out = PushIf(@, Fused(gd.ops, gd.policy, gd.st, gd.X[gd.p])),
       !.p = IF Fused(gd.ops, gd.policy, gd.st, gd.X[gd.p]).tag = "sentinel" THEN @ ELSE @ + 1,
       !.handedAt = IF Fused(gd.ops, gd.policy, gd.st, gd.X[gd.p]).tag = "sentinel" /\ @ = 0
                    THEN gd.p ELSE @,
       !.depth = IF Fused(gd.ops, gd.policy, gd.st, gd.X[gd.p]).tag = "sentinel"
                    /\ @ < MaxDepth
                 THEN @ + 1 ELSE @,
       !.phase = IF Fused(gd.ops, gd.policy, gd.st, gd.X[gd.p]).tag = "sentinel"
                    /\ gd.depth = MaxDepth
                 THEN "fast" ELSE @,
       !.base = gd.p]
  /\ UNCHANGED <<objVars, am, ob, td, sw, cb, mg, cm, rt, wa, wm, fs, kn, rd, ci, dp, pq, bc, ms>>

\* The generic path of the innermost `rest`, its fast path for arrays: the
\* operators run on the next item; at the first promise the items from
\* indexOf(value) on go to asyncFallback.
fastItem ==
  /\ gd.phase = "fast"
  /\ gd.p <= Len(gd.X)
  /\ IF RunSync(gd.ops, 1, gd.st, gd.X[gd.p]).tag = "promise"
     THEN gd' = [gd EXCEPT !.st = RunSync(gd.ops, 1, gd.st, gd.X[gd.p]).st,
                           !.p = IndexOf(gd.X, gd.base, gd.X[gd.p]),
                           !.phase = "fallback"]
     ELSE gd' = [gd EXCEPT !.st = RunSync(gd.ops, 1, gd.st, gd.X[gd.p]).st,
                           !.out = PushIf(@, RunSync(gd.ops, 1, gd.st, gd.X[gd.p])),
                           !.p = @ + 1]
  /\ UNCHANGED <<objVars, am, ob, td, sw, cb, mg, cm, rt, wa, wm, fs, kn, rd, ci, dp, pq, bc, ms>>

\* asyncFallback: applyOperators on the next remaining item, awaited.
fallbackItem ==
  /\ gd.phase = "fallback"
  /\ gd.p <= Len(gd.X)
  /\ gd' = [gd EXCEPT !.st = ApplyOperators(gd.ops, gd.st, gd.X[gd.p]).st,
                      !.out = PushIf(@, ApplyOperators(gd.ops, gd.st, gd.X[gd.p])),
                      !.p = @ + 1]
  /\ UNCHANGED <<objVars, am, ob, td, sw, cb, mg, cm, rt, wa, wm, fs, kn, rd, ci, dp, pq, bc, ms>>

\* The array is exhausted: the loop, and every level above it, ends.
guardedEnd ==
  /\ gd.phase \in {"sync", "fast", "fallback"}
  /\ gd.p > Len(gd.X)
  /\ gd' = [gd EXCEPT !.phase = "done"]
  /\ UNCHANGED <<objVars, am, ob, td, sw, cb, mg, cm, rt, wa, wm, fs, kn, rd, ci, dp, pq, bc, ms>>

\* A freshly built pipeline.  A chain with scan, take or skip and neither
\* handler nor terminateOnError is never run through the per-item function.
InitGuarded ==
  /\ \E A \in SeqsUpTo(Vals, MaxLen), o \in GuardChains, pol \in Policies :
       /\ pol = "Drop" => ~StatefulChain(o)
       /\ gd = [phase |-> "sync", X |-> A, ops |-> o, policy |-> pol, st |-> FreshState,
                p |-> 1, base |-> 1, depth |-> 0, handedAt |-> 0, out |-> <<>>,
                lastCall |-> [tag |-> "none", v |-> U, st |-> FreshState,
                              promised |-> FALSE, handlerArg |-> "none"]]
  /\ am = None
  /\ ob = None
  /\ td = None
  /\ sw = None
  /\ cb = None
  /\ mg = None
  /\ cm = None
  /\ rt = None
  /\ wa = None
  /\ wm = None
  /\ fs = None
  /\ kn = None
  /\ rd = None
  /\ ci = None
  /\ dp = None
  /\ pq = None
  /\ bc = None
  /\ ms = None
  /\ NoPipe
  /\ NoCredit
  /\ NoRate

NextGuarded ==
  \/ guardedCall
  \/ fastItem
  \/ fallbackItem
  \/ guardedEnd

SpecGuarded == InitGuarded /\ [][NextGuarded]_vars

\* ------------------------------------ per-item functions and array kernels
\* The operator lists the four compiled variants are compared on: map with a
\* callback that does not throw, filter, skip, take and scan.
KernelNodes ==
  {[kind |-> "map", fn |-> f, n |-> 0] : f \in {"inc", "undef1"}}
    \cup {[kind |-> "filter", fn |-> "odd", n |-> 0], [kind |-> "scan", fn |-> "sum", n |-> 0]}
    \cup {[kind |-> k, fn |-> "", n |-> n] : k \in {"take", "skip"}, n \in 1..MaxN}
KernelChains == SeqsUpTo(KernelNodes, MaxOps) \ {<<>>}
AllOps(ns) == [j \in 1..Len(ns) |-> j]
HasTake(ns) == \E j \in 1..Len(ns) : ns[j].kind = "take"

\* The closures' state when the operator objects are built, under
\* terminateOnError, with no handler.
KernelHeap(ns) ==
  [st |-> [j \in 1..Len(ns) |-> IF ns[j].kind = "scan" THEN ScanSeed(ns[j].fn) ELSE 0],
   read |-> 0, hd |-> <<"none">>, tm |-> <<TRUE>>]

\* compileOperatorChainUnchecked, the generated function: the body of the
\* scalar kernel with `return undefined` where the kernel breaks or continues.
RECURSIVE UncheckedJitLoop(_, _, _, _, _)
UncheckedJitLoop(ns, A, i, loc, out) ==
  IF i > Len(A) THEN out
  ELSE UncheckedJitLoop(ns, A, i + 1, KernelItem(ns, AllOps(ns), 1, loc, A[i]).loc,
         IF KernelItem(ns, AllOps(ns), 1, loc, A[i]).tag = "emit"
         THEN Append(out, KernelItem(ns, AllOps(ns), 1, loc, A[i]).v) ELSE out)

\* The unchecked per-item function run over A[start..]: generated when
\* code generation succeeds, else the closure loop.
compileOperatorChainUnchecked(ns, A, start, jit) ==
  IF JitCompiles(jit, ns, AllOps(ns))
  THEN UncheckedJitLoop(ns, A, start, ZeroLoc(ns), <<>>)
  ELSE EvVals(FastLoop(ns, AllOps(ns), A, start, KernelHeap(ns), <<>>).evs)

\* The guarded per-item function run over A[start..].
compileOperatorChain(ns, A, start) ==
  EvVals(GuardedLoop(ns, AllOps(ns), A, 1, start, KernelHeap(ns), <<>>).evs)

\* The number of lanes nagare.ts asks for.
Unroll == 4

\* One statement `if (!s<lane>) { ... }` of the unrolled body: operator j on
\* the lane's value.  B holds the lanes' values c, their skip flags s and
\* the cursors loc of the main loop.
LaneOp(node, j, B, lane) ==
  IF B.s[lane] THEN B
  ELSE CASE node.kind = "filter" ->
              IF Pred(node.fn, B.c[lane]) THEN B ELSE [B EXCEPT !.s[lane] = TRUE]
         [] node.kind = "skip" ->
              IF B.loc[j] < node.n
              THEN [B EXCEPT !.loc[j] = @ + 1, !.s[lane] = TRUE]
              ELSE B
         [] OTHER ->
              [B EXCEPT !.c[lane] = OpCall(node, 0, B.c[lane]).r,
                        !.s[lane] = (OpCall(node, 0, B.c[lane]).r = U)]

\* The statements of one turn of the main loop, operator by operator and
\* for each operator lane by lane; n counts the statements done.
RECURSIVE LaneOps(_, _, _)
LaneOps(ns, n, B) ==
  IF n >= Len(ns) * Unroll THEN B
  ELSE LaneOps(ns, n + 1, LaneOp(ns[(n \div Unroll) + 1], (n \div Unroll) + 1, B, (n % Unroll) + 1))

\* `if (!s<lane>) out[k++] = c<lane>` for each lane
Kept(B) == SelectSeq([l \in 1..Unroll |-> IF B.s[l] THEN U ELSE B.c[l]], LAMBDA v : v # U)

Block(A, i, loc) ==
  [c |-> [l \in 1..Unroll |-> A[i + l - 1]], s |-> [l \in 1..Unroll |-> FALSE], loc |-> loc]

\* `stop = len - ((len - start) % unroll)`; start is 1-based here, so the
\* main loop runs while i <= stop.
Stop(len, start) == len - ((len - (start - 1)) % Unroll)

\* The cursors of the tail loop: the generated code declares them anew
\* (`let tsk<idx> = 0`) beside those of the main loop.
TailLoc(ns, loc) == ZeroLoc(ns)

\* compileArrayKernelUncheckedUnrolled: the main loop over whole blocks of
\* lanes, then the scalar tail loop over what is left.
RECURSIVE UnrolledLoop(_, _, _, _, _, _)
UnrolledLoop(ns, A, i, stop, loc, out) ==
  IF i <= stop
  THEN UnrolledLoop(ns, A, i + Unroll, stop, LaneOps(ns, 0, Block(A, i, loc)).loc,
                    out \o Kept(LaneOps(ns, 0, Block(A, i, loc))))
  ELSE compileArrayKernelUnchecked(ns, AllOps(ns), A, i, TailLoc(ns, loc), out).out

\* Which variants exist for an operator list: the kernels are null when code
\* generation is off or fails, the unrolled one also when there is a take.
HasKernel(ns, jit) == JitCompiles(jit, ns, AllOps(ns))
HasUnrolled(ns, jit) == HasKernel(ns, jit) /\ ~HasTake(ns)

NotRun == <<0 - 1>>

runGuarded ==
  /\ kn.phase = "built"
  /\ kn.guarded = NotRun
  /\ kn' = [kn EXCEPT !.guarded = compileOperatorChain(kn.ops, kn.A, kn.start)]
  /\ UNCHANGED <<objVars, am, ob, td, sw, cb, mg, cm, rt, wa, wm, fs, gd, rd, ci, dp, pq, bc, ms>>

runUnchecked ==
  /\ kn.phase = "built"
  /\ kn.unchecked = NotRun
  /\ kn' = [kn EXCEPT !.unchecked = compileOperatorChainUnchecked(kn.ops, kn.A, kn.start, kn.jit)]
  /\ UNCHANGED <<objVars, am, ob, td, sw, cb, mg, cm, rt, wa, wm, fs, gd, rd, ci, dp, pq, bc, ms>>

runKernel ==
  /\ kn.phase = "built"
  /\ kn.kernel = NotRun
  /\ HasKernel(kn.ops, kn.jit)
  /\ kn' = [kn EXCEPT !.kernel =
         compileArrayKernelUnchecked(kn.ops, AllOps(kn.ops), kn.A, kn.start,
                                     ZeroLoc(kn.ops), <<>>).out]
  /\ UNCHANGED <<objVars, am, ob, td, sw, cb, mg, cm, rt, wa, wm, fs, gd, rd, ci, dp, pq, bc, ms>>

runUnrolled ==
  /\ kn.phase = "built"
  /\ kn.unrolled = NotRun
  /\ HasUnrolled(kn.ops, kn.jit)
  /\ kn' = [kn EXCEPT !.unrolled = UnrolledLoop(kn.ops, kn.A, kn.start,
                                                Stop(Len(kn.A), kn.start), ZeroLoc(kn.ops), <<>>)]
  /\ UNCHANGED <<objVars, am, ob, td, sw, cb, mg, cm, rt, wa, wm, fs, gd, rd, ci, dp, pq, bc, ms>>

\* An operator list, an array and the start index (after a probe of the
\* first item or not) the variants are called with; each variant is compiled
\* afresh, so its closures and cursors start from their initial values.
InitKernels ==
  /\ \E o \in KernelChains, B \in SeqsUpTo(Vals, MaxKernelLen), s \in {1, 2}, j \in {"fast", "off"} :
       /\ s <= Len(B) + 1
       /\ kn = [phase |-> "built", ops |-> o, A |-> B, start |-> s, jit |-> j,
                guarded |-> NotRun, unchecked |-> NotRun, kernel |-> NotRun,
                unrolled |-> NotRun]
  /\ am = None
  /\ ob = None
  /\ td = None
  /\ sw = None
  /\ cb = None
  /\ mg = None
  /\ cm = None
  /\ rt = None
  /\ wa = None
  /\ wm = None
  /\ fs = None
  /\ gd = None
  /\ rd = None
  /\ ci = None
  /\ dp = None
  /\ pq = None
  /\ bc = None
  /\ ms = None
  /\ NoPipe
  /\ NoCredit
  /\ NoRate

NextKernels ==
  \/ runGuarded
  \/ runUnchecked
  \/ runKernel
  \/ runUnrolled

SpecKernels == InitKernels /\ [][NextKernels]_vars

\* ------------------------------------------------------------------ reduce
\* pipeline.reduce(reducer, initial) for a synchronous reducer, beside
\* pipeline.toArray(), each on a freshly built pipeline from(X) followed by a
\* list of operators whose callbacks do not throw.
Reducers == {"sum", "push"}
Reducer(r, acc, v) == IF r = "sum" THEN acc + v ELSE Append(acc, v)
Initials(r) == IF r = "sum" THEN {0, 1} ELSE {<<>>}

RECURSIVE Fold(_, _, _, _)
Fold(r, acc, A, i) == IF i > Len(A) THEN acc ELSE Fold(r, Reducer(r, acc, A[i]), A, i + 1)

BuiltNodes(ops) == <<BaseNode>> \o ops
BuiltHeap(ops) ==
  [st |-> [j \in 1..(Len(ops) + 1) |->
             IF BuiltNodes(ops)[j].kind = "scan" THEN ScanSeed(BuiltNodes(ops)[j].fn) ELSE 0],
   hd |-> [j \in 1..(Len(ops) + 1) |-> "none"],
   tm |-> [j \in 1..(Len(ops) + 1) |-> FALSE],
   read |-> 0]
BuiltPipeline(p) == [X |-> p.X, src |-> p.src, nodes |-> BuiltNodes(p.ops)]

\* The tight loop over the base array, taken when fusion is disabled or
\* there is no operator: `acc = reducer(acc, src[i])`.
TightLoop(p) == Fold(p.reducer, p.initial, p.X, 1)

\* `v = fast(src[i]); if (v !== undefined) acc = reducer(acc, v)`
FusedReduce(p) ==
  Fold(p.reducer, p.initial, compileOperatorChainUnchecked(p.ops, p.X, 1, p.cfg.jit), 1)

\* `for await (const value of this) acc = await reducer(acc, value)`
GenericReduce(p) ==
  Fold(p.reducer, p.initial,
       EvVals(Iterate(BuiltPipeline(p), p.cfg, Len(p.ops) + 1, BuiltHeap(p.ops)).evs), 1)

\* Nagare.reduce
Reduce(p) ==
  IF p.src = "array"
  THEN IF ~p.cfg.fusion \/ Len(p.ops) = 0 THEN TightLoop(p) ELSE FusedReduce(p)
  ELSE GenericReduce(p)

reduce ==
  /\ rd.phase = "built"
  /\ ~rd.reduced
  /\ rd' = [rd EXCEPT !.reduced = TRUE, !.result = Reduce(rd)]
  /\ UNCHANGED <<objVars, am, ob, td, sw, cb, mg, cm, rt, wa, wm, fs, gd, kn, ci, dp, pq, bc, ms>>

\* toArray() on the same pipeline, built afresh
collect ==
  /\ rd.phase = "built"
  /\ ~rd.collected
  /\ rd' = [rd EXCEPT !.collected = TRUE,
                      !.array = toArray(BuiltPipeline(rd), rd.cfg, Len(rd.ops) + 1,
                                        BuiltHeap(rd.ops)).out]
  /\ UNCHANGED <<objVars, am, ob, td, sw, cb, mg, cm, rt, wa, wm, fs, gd, kn, ci, dp, pq, bc, ms>>

InitReduce ==
  /\ \E A \in SeqsUpTo(Vals, MaxLen), o \in KernelChains \cup {<<>>},
        s \in {"array", "asyncgen"}, f \in BOOLEAN, j \in {"fast", "off"}, r \in Reducers :
       \E init \in Initials(r) :
         rd = [phase |-> "built", X |-> A, ops |-> o, src |-> s,
               cfg |-> [fusion |-> f, jit |-> j], reducer |-> r, initial |-> init,
               reduced |-> FALSE, result |-> init, collected |-> FALSE, array |-> <<>>]
  /\ am = None
  /\ ob = None
  /\ td = None
  /\ sw = None
  /\ cb = None
  /\ mg = None
  /\ cm = None
  /\ rt = None
  /\ wa = None
  /\ wm = None
  /\ fs = None
  /\ gd = None
  /\ kn = None
  /\ ci = None
  /\ dp = None
  /\ pq = None
  /\ bc = None
  /\ ms = None
  /\ NoPipe
  /\ NoCredit
  /\ NoRate

NextReduce ==
  \/ reduce
  \/ collect

SpecReduce == InitReduce /\ [][NextReduce]_vars

\* ---------------------------- CreditController, native controller attaching
\* new CreditController(initialCredits) starts initWasm(), which awaits the
\* module and then sets wasmController; until then, and when the module has
\* no native CreditController, the methods use this.credits.  The native
\* controller is not part of this source: it is taken to be the credit
\* controller of the specification, built with `initial` available credits.
NativeNew(initial) == initial
NativeConsumeAccepts(available, amount) == available >= amount
NativeConsume(available, amount) ==
  IF NativeConsumeAccepts(available, amount) THEN available - amount ELSE available
NativeAdd(available, amount) == addLeaves(available, amount)

\* availableCredits()
AvailableCredits(c) == IF c.wasm = "attached" THEN c.native ELSE c.credits

\* consumeCredit(amount), before or after the native controller is attached
consumeDuringInit ==
  /\ ci.phase = "live"
  /\ ci.calls < MaxCalls
  /\ \E amount \in 1..MaxAmount :
       ci' = [ci EXCEPT
                !.calls = @ + 1,
                !.credits = IF ci.wasm = "attached" THEN @ ELSE consumeLeaves(@, amount),
                !.native = IF ci.wasm = "attached" THEN NativeConsume(@, amount) ELSE @,
                !.switch = "none"]
  /\ UNCHANGED <<objVars, am, ob, td, sw, cb, mg, cm, rt, wa, wm, fs, gd, kn, rd, dp, pq, bc, ms>>

\* addCredits(amount)
addDuringInit ==
  /\ ci.phase = "live"
  /\ ci.calls < MaxCalls
  /\ \E amount \in 1..MaxAmount :
       ci' = [ci EXCEPT
                !.calls = @ + 1,
                !.credits = IF ci.wasm = "attached" THEN @ ELSE addLeaves(@, amount),
                !.native = IF ci.wasm = "attached" THEN NativeAdd(@, amount) ELSE @,
                !.switch = "none"]
  /\ UNCHANGED <<objVars, am, ob, td, sw, cb, mg, cm, rt, wa, wm, fs, gd, kn, rd, dp, pq, bc, ms>>

\* initWasm resumes after `await ensureWasmLoaded()` with a module that has
\* a CreditController: `this.wasmController = new wasmModule.CreditController(
\* this.initialCredits)`.  before and after are what availableCredits()
\* returns on either side of the assignment.
initWasmAttaches ==
  /\ ci.phase = "live"
  /\ ci.wasm = "pending"
  /\ ci.module = "native"
  /\ ci' = [ci EXCEPT !.wasm = "attached", !.native = NativeNew(ci.initialCredits),
                      !.switch = "attached", !.before = AvailableCredits(ci),
                      !.after = NativeNew(ci.initialCredits)]
  /\ UNCHANGED <<objVars, am, ob, td, sw, cb, mg, cm, rt, wa, wm, fs, gd, kn, rd, dp, pq, bc, ms>>

\* initWasm ends without a native controller: loading threw, or the module
\* (the mock of a test environment) has no CreditController and `new` threw.
initWasmFails ==
  /\ ci.phase = "live"
  /\ ci.wasm = "pending"
  /\ ci.module \in {"mock", "unavailable"}
  /\ ci' = [ci EXCEPT !.wasm = "fallback", !.switch = "fallback",
                      !.before = AvailableCredits(ci), !.after = AvailableCredits(ci)]
  /\ UNCHANGED <<objVars, am, ob, td, sw, cb, mg, cm, rt, wa, wm, fs, gd, kn, rd, dp, pq, bc, ms>>

InitCreditInit ==
  /\ \E i \in 0..MaxInitial, m \in {"native", "mock", "unavailable"} :
       ci = [phase |-> "live", initialCredits |-> i, credits |-> i, native |-> 0,
             wasm |-> "pending", module |-> m, calls |-> 0,
             switch |-> "none", before |-> 0, after |-> 0]
  /\ am = None
  /\ ob = None
  /\ td = None
  /\ sw = None
  /\ cb = None
  /\ mg = None
  /\ cm = None
  /\ rt = None
  /\ wa = None
  /\ wm = None
  /\ fs = None
  /\ gd = None
  /\ kn = None
  /\ rd = None
  /\ dp = None
  /\ pq = None
  /\ bc = None
  /\ ms = None
  /\ NoPipe
  /\ NoCredit
  /\ NoRate

NextCreditInit ==
  \/ consumeDuringInit
  \/ addDuringInit
  \/ initWasmAttaches
  \/ initWasmFails

SpecCreditInit == InitCreditInit /\ [][NextCreditInit]_vars

\* ------------------------------------------------------ DynamicBackpressure
\* Rates are fractions [n, d] in lowest terms; the code's doubles are taken
\* as exact.
RECURSIVE Gcd(_, _)
Gcd(a, b) == IF b = 0 THEN a ELSE Gcd(b, a % b)
Frac(n, d) == [n |-> n \div Gcd(n, d), d |-> d \div Gcd(n, d)]
Whole(n) == [n |-> n, d |-> 1]
Less(a, b) == a.n * b.d < b.n * a.d

\* new AdaptiveBackpressure(100, targetLatencyMs, 10, 1000), alpha = 0.2
InitialRate == 100
MinRate == 10
MaxRate == 1000
AlphaInverse == 5

\* AdaptiveBackpressure.update: error = target - observed,
\* newRate = rate * (1 + alpha * error / target), clamped to [min, max].
\* 1 + alpha * error / target = (5 * target + error) / (5 * target).
Scaled(rate, target, observed) ==
  IF AlphaInverse * target + (target - observed) <= 0 THEN Whole(0)
  ELSE Frac(rate.n * (AlphaInverse * target + (target - observed)),
            rate.d * AlphaInverse * target)
Clamp(r) ==
  IF Less(r, Whole(MinRate)) THEN Whole(MinRate)
  ELSE IF Less(Whole(MaxRate), r) THEN Whole(MaxRate) ELSE r
update(rate, target, observed) == Clamp(Scaled(rate, target, observed))

\* AdaptiveBackpressure.shouldThrottle
shouldThrottle(rate, currentThroughput) == Less(rate, Whole(currentThroughput))

\* The metrics a caller passes: queueSize, inputRate, latencyMs (the other
\* fields are not read).
InputRates == {MinRate, InitialRate, InitialRate + 1, MaxRate}
Metrics == [queueSize : 0..MaxQueue, inputRate : InputRates, latencyMs : 0..MaxLatency]

\* DynamicBackpressure.shouldAccept: the decision
Accepts(d, m) ==
  /\ ~(m.queueSize >= d.maxQueueSize)
  /\ ~(m.latencyMs > d.targetLatencyMs * 2)
  /\ ~shouldThrottle(d.rate, m.inputRate)

Fed_queueSize(m) == m.queueSize

\* What onAccept and onReject pass to adaptive.update
Fed(m) == m.latencyMs

Decided(d, op, m, ok) ==
  [op |-> op, m |-> m, accepted |-> ok, rateBefore |-> d.rate]

\* shouldAccept(metrics): returns the decision; no field is assigned.
shouldAccept ==
  /\ dp.phase = "live"
  /\ dp.calls < MaxDecisions
  /\ \E m \in Metrics :
       dp' = [dp EXCEPT !.calls = @ + 1, !.last = Decided(dp, "shouldAccept", m, Accepts(dp, m))]
  /\ UNCHANGED <<objVars, am, ob, td, sw, cb, mg, cm, rt, wa, wm, fs, gd, kn, rd, ci, pq, bc, ms>>

\* onAccept(metrics)
onAccept ==
  /\ dp.phase = "live"
  /\ dp.calls < MaxDecisions
  /\ \E m \in Metrics :
       dp' = [dp EXCEPT !.calls = @ + 1, !.last = Decided(dp, "onAccept", m, TRUE),
                        !.rate = update(dp.rate, dp.targetLatencyMs, Fed(m))]
  /\ UNCHANGED <<objVars, am, ob, td, sw, cb, mg, cm, rt, wa, wm, fs, gd, kn, rd, ci, pq, bc, ms>>

\* onReject(metrics)
onReject ==
  /\ dp.phase = "live"
  /\ dp.calls < MaxDecisions
  /\ \E m \in Metrics :
       dp' = [dp EXCEPT !.calls = @ + 1, !.last = Decided(dp, "onReject", m, FALSE),
                        !.rate = update(dp.rate, dp.targetLatencyMs, Fed(m))]
  /\ UNCHANGED <<objVars, am, ob, td, sw, cb, mg, cm, rt, wa, wm, fs, gd, kn, rd, ci, pq, bc, ms>>

\* new DynamicBackpressure(maxQueueSize, targetLatencyMs)
InitDynamic ==
  /\ \E q \in 0..MaxQueue, t \in 1..MaxTarget :
       dp = [phase |-> "live", maxQueueSize |-> q, targetLatencyMs |-> t,
             rate |-> Whole(InitialRate), calls |-> 0,
             last |-> [op |-> "new", m |-> [queueSize |-> 0, inputRate |-> MinRate, latencyMs |-> 0],
                       accepted |-> TRUE, rateBefore |-> Whole(InitialRate)]]
  /\ am = None
  /\ ob = None
  /\ td = None
  /\ sw = None
  /\ cb = None
  /\ mg = None
  /\ cm = None
  /\ rt = None
  /\ wa = None
  /\ wm = None
  /\ fs = None
  /\ gd = None
  /\ kn = None
  /\ rd = None
  /\ ci = None
  /\ pq = None
  /\ bc = None
  /\ ms = None
  /\ NoPipe
  /\ NoCredit
  /\ NoRate

NextDynamic ==
  \/ shouldAccept
  \/ onAccept
  \/ onReject

SpecDynamic == InitDynamic /\ [][NextDynamic]_vars

\* ------------------------------------------- Durable Object: processQueue
\* processQueue is started by alarm() and by a 'resume' control message.
\* It suspends at `await this.processItem(item)`, inside broadcastResult and
\* at `await this.storage.put(...)`; another run may start at any of these
\* points.  processItem always resolves.
RunKinds == {"alarm", "resume"}
BatchLimit == 10

Queued(status) == SelectSeq([i \in 1..Len(status) |-> i], LAMBDA i : status[i] = "queued")
FirstN(s, n) == IF Len(s) <= n THEN s ELSE SubSeq(s, 1, n)

\* `this.processingQueue.filter(item => item.status === 'queued').slice(0, 10)`
ToProcess(status) == FirstN(Queued(status), BatchLimit)

\* The loop takes its next item: status 'processing', whatever it was, and
\* awaits processItem; after the last item it awaits storage.put.
TakeNext(q, r, snap, pos) ==
  IF pos > Len(snap)
  THEN [q EXCEPT !.runs[r] = [pc |-> "store", snap |-> snap, pos |-> pos]]
  ELSE [q EXCEPT !.runs[r] = [pc |-> "item", snap |-> snap, pos |-> pos],
                 !.status[snap[pos]] = "processing",
                 !.holders[snap[pos]] = @ \cup {r}]

\* handleEnqueue: a new item, status 'queued'.
enqueue ==
  /\ pq.phase = "live"
  /\ Len(pq.status) < MaxItems
  /\ pq' = [pq EXCEPT !.status = Append(@, "queued"), !.holders = Append(@, {}),
                      !.broadcasts = Append(@, 0)]
  /\ UNCHANGED <<objVars, am, ob, td, sw, cb, mg, cm, rt, wa, wm, fs, gd, kn, rd, ci, dp, bc, ms>>

\* alarm() or handleControlMessage('resume') calls processQueue: the
\* snapshot of the queued items, then the first turn of the loop.
processQueue ==
  /\ pq.phase = "live"
  /\ \E r \in RunKinds :
       /\ pq.runs[r].pc = "idle"
       /\ pq' = TakeNext(pq, r, ToProcess(pq.status), 1)
  /\ UNCHANGED <<objVars, am, ob, td, sw, cb, mg, cm, rt, wa, wm, fs, gd, kn, rd, ci, dp, bc, ms>>

\* processItem resolves: status 'completed', broadcastResult begins.
itemProcessed ==
  /\ pq.phase = "live"
  /\ \E r \in RunKinds :
       /\ pq.runs[r].pc = "item"
       /\ pq' = [pq EXCEPT !.runs[r].pc = "broadcast",
                           !.status[pq.runs[r].snap[pq.runs[r].pos]] = "completed"]
  /\ UNCHANGED <<objVars, am, ob, td, sw, cb, mg, cm, rt, wa, wm, fs, gd, kn, rd, ci, dp, bc, ms>>

\* broadcastResult resolves: the result frame has been broadcast; the loop
\* goes on to the next item of its snapshot.
resultBroadcast ==
  /\ pq.phase = "live"
  /\ \E r \in RunKinds :
       /\ pq.runs[r].pc = "broadcast"
       /\ pq' = TakeNext([pq EXCEPT !.broadcasts[pq.runs[r].snap[pq.runs[r].pos]] = @ + 1,
                                    !.holders[pq.runs[r].snap[pq.runs[r].pos]] = @ \ {r}],
                         r, pq.runs[r].snap, pq.runs[r].pos + 1)
  /\ UNCHANGED <<objVars, am, ob, td, sw, cb, mg, cm, rt, wa, wm, fs, gd, kn, rd, ci, dp, bc, ms>>

\* storage.put resolves; completed items younger than an hour stay.
queueStored ==
  /\ pq.phase = "live"
  /\ \E r \in RunKinds :
       /\ pq.runs[r].pc = "store"
       /\ pq' = [pq EXCEPT !.runs[r].pc = "done"]
  /\ UNCHANGED <<objVars, am, ob, td, sw, cb, mg, cm, rt, wa, wm, fs, gd, kn, rd, ci, dp, bc, ms>>

\* The object after initialize(), its stored queue holding queued items.
InitQueue ==
  /\ \E n \in 0..MaxItems :
       pq = [phase |-> "live", status |-> [i \in 1..n |-> "queued"],
             holders |-> [i \in 1..n |-> {}], broadcasts |-> [i \in 1..n |-> 0],
             runs |-> [r \in RunKinds |-> [pc |-> "idle", snap |-> <<>>, pos |-> 0]]]
  /\ am = None
  /\ ob = None
  /\ td = None
  /\ sw = None
  /\ cb = None
  /\ mg = None
  /\ cm = None
  /\ rt = None
  /\ wa = None
  /\ wm = None
  /\ fs = None
  /\ gd = None
  /\ kn = None
  /\ rd = None
  /\ ci = None
  /\ dp = None
  /\ bc = None
  /\ ms = None
  /\ NoPipe
  /\ NoCredit
  /\ NoRate

NextQueue ==
  \/ enqueue
  \/ processQueue
  \/ itemProcessed
  \/ resultBroadcast
  \/ queueStored

SpecQueue == InitQueue /\ [][NextQueue]_vars

\* ------------------------------- MultiStreamCreditManager and its streams
\* The manager maps stream ids to CreditControllers; Absent stands for an id
\* the map does not hold.  Every controller starts its own initWasm().
StreamIds == 1..MaxStreams
Absent == [wasm |-> "absent"]
Controller(initial) ==
  [initialCredits |-> initial, credits |-> initial, native |-> 0, wasm |-> "pending"]

\* CreditController.consumeCredit / addCredits on a controller record
CreditAccepts(c, amount) ==
  IF c.wasm = "attached" THEN NativeConsumeAccepts(c.native, amount)
  ELSE consumeAccepts(c.credits, amount)
CreditConsumed(c, amount) ==
  IF c.wasm = "attached" THEN [c EXCEPT !.native = NativeConsume(@, amount)]
  ELSE [c EXCEPT !.credits = consumeLeaves(@, amount)]
CreditAdded(c, amount) ==
  IF c.wasm = "attached" THEN [c EXCEPT !.native = NativeAdd(@, amount)]
  ELSE [c EXCEPT !.credits = addLeaves(@, amount)]

\* initWasm of one controller ends: attached with a module that has a
\* native CreditController, the JS fallback otherwise.
WasmSettled(c, module) ==
  IF module = "native"
  THEN [c EXCEPT !.wasm = "attached", !.native = NativeNew(c.initialCredits)]
  ELSE [c EXCEPT !.wasm = "fallback"]

\* registerStream, unregisterStream, consume, addCredits
Registered(streams, s, initial) == [streams EXCEPT ![s] = Controller(initial)]
Unregistered(streams, s) == [streams EXCEPT ![s] = Absent]
StreamAccepts(streams, s, amount) ==
  streams[s] # Absent /\ CreditAccepts(streams[s], amount)
StreamConsumed(streams, s, amount) ==
  IF streams[s] # Absent THEN [streams EXCEPT ![s] = CreditConsumed(@, amount)] ELSE streams
StreamAdded_all(streams, s, amount) ==
  [t \in StreamIds |-> IF streams[t] # Absent THEN CreditAdded(streams[t], amount) ELSE streams[t]]
StreamAdded(streams, s, amount) ==
  IF streams[s] # Absent THEN [streams EXCEPT ![s] = CreditAdded(@, amount)] ELSE streams

\* ------------------------------------------ Durable Object: broadcastFrame
\* A subscriber is a WebSocket with a stream id of its own (a fresh UUID);
\* its socket is open for as long as it is in `subscribers`.
\* StreamCredits is the 100 of `registerStream(streamId, 100)`, scaled down.

\* handleWebSocket: a new subscriber and its stream
handleWebSocket ==
  /\ bc.phase = "live"
  /\ \E s \in StreamIds :
       /\ bc.subs[s] = "new"
       /\ \A t \in StreamIds : t < s => bc.subs[t] # "new"
       /\ bc' = [bc EXCEPT !.subs[s] = "open",
                           !.streams = Registered(@, s, StreamCredits)]
  /\ UNCHANGED <<objVars, am, ob, td, sw, cb, mg, cm, rt, wa, wm, fs, gd, kn, rd, ci, dp, pq, ms>>

\* handleControlMessage 'credit' from a subscriber: amount is what the
\* message carries.
creditMessage ==
  /\ bc.phase = "live"
  /\ bc.grants < MaxGrants
  /\ \E s \in StreamIds, amount \in Amounts :
       /\ bc.subs[s] = "open"
       /\ bc' = [bc EXCEPT !.grants = @ + 1,
                           !.granted[s] = @ + amount,
                           !.streams = StreamAdded(@, s, amount)]
  /\ UNCHANGED <<objVars, am, ob, td, sw, cb, mg, cm, rt, wa, wm, fs, gd, kn, rd, ci, dp, pq, ms>>

\* 'unsubscribe', or the socket's close or error event
unsubscribeStream ==
  /\ bc.phase = "live"
  /\ \E s \in StreamIds :
       /\ bc.subs[s] = "open"
       /\ bc' = [bc EXCEPT !.subs[s] = "gone", !.streams = Unregistered(@, s)]
  /\ UNCHANGED <<objVars, am, ob, td, sw, cb, mg, cm, rt, wa, wm, fs, gd, kn, rd, ci, dp, pq, ms>>

\* initWasm of a registered stream's controller ends
streamWasmSettles ==
  /\ bc.phase = "live"
  /\ \E s \in StreamIds :
       /\ bc.streams[s].wasm = "pending"
       /\ bc' = [bc EXCEPT !.streams[s] = WasmSettled(@, bc.module)]
  /\ UNCHANGED <<objVars, am, ob, td, sw, cb, mg, cm, rt, wa, wm, fs, gd, kn, rd, ci, dp, pq, ms>>

\* broadcastFrame, after serialize: every subscriber whose stream gives up
\* one credit is sent the frame.
broadcastFrame ==
  /\ bc.phase = "live"
  /\ bc.frames < MaxBroadcasts
  /\ bc' = [bc EXCEPT
              !.frames = @ + 1,
              !.sent = [s \in StreamIds |->
                          IF bc.subs[s] = "open" /\ StreamAccepts(bc.streams, s, 1)
                          THEN @[s] + 1 ELSE @[s]],
              !.streams = [s \in StreamIds |->
                             IF bc.subs[s] = "open" THEN StreamConsumed(bc.streams, s, 1)[s]
                             ELSE @[s]]]
  /\ UNCHANGED <<objVars, am, ob, td, sw, cb, mg, cm, rt, wa, wm, fs, gd, kn, rd, ci, dp, pq, ms>>

InitBroadcast ==
  /\ \E m \in {"native", "mock"} :
       bc = [phase |-> "live", module |-> m,
             subs |-> [s \in StreamIds |-> "new"],
             streams |-> [s \in StreamIds |-> Absent],
             sent |-> [s \in StreamIds |-> 0],
             granted |-> [s \in StreamIds |-> 0],
             frames |-> 0, grants |-> 0]
  /\ am = None
  /\ ob = None
  /\ td = None
  /\ sw = None
  /\ cb = None
  /\ mg = None
  /\ cm = None
  /\ rt = None
  /\ wa = None
  /\ wm = None
  /\ fs = None
  /\ gd = None
  /\ kn = None
  /\ rd = None
  /\ ci = None
  /\ dp = None
  /\ pq = None
  /\ ms = None
  /\ NoPipe
  /\ NoCredit
  /\ NoRate

NextBroadcast ==
  \/ handleWebSocket
  \/ creditMessage
  \/ unsubscribeStream
  \/ streamWasmSettles
  \/ broadcastFrame

SpecBroadcast == InitBroadcast /\ [][NextBroadcast]_vars

\* ------------------------------------ MultiStreamCreditManager, called directly
\* last is the operation just called and the stream id it named; prev is the
\* map as it was before that call.
ManagerCalled(op, s, streams) ==
  [ms EXCEPT !.calls = @ + 1, !.last = [op |-> op, s |-> s],
             !.prev = ms.streams, !.streams = streams]

\* registerStream(streamId, initialCredits?): `initialCredits ?? defaultCredits`
registerStream ==
  /\ ms.phase = "live"
  /\ ms.calls < MaxManagerCalls
  /\ \E s \in StreamIds, given \in BOOLEAN, initial \in 0..MaxInitial :
       ms' = ManagerCalled("registerStream", s,
               Registered(ms.streams, s, IF given THEN initial ELSE ms.defaultCredits))
  /\ UNCHANGED <<objVars, am, ob, td, sw, cb, mg, cm, rt, wa, wm, fs, gd, kn, rd, ci, dp, pq, bc>>

\* unregisterStream(streamId)
unregisterStream ==
  /\ ms.phase = "live"
  /\ ms.calls < MaxManagerCalls
  /\ \E s \in StreamIds :
       ms' = ManagerCalled("unregisterStream", s, Unregistered(ms.streams, s))
  /\ UNCHANGED <<objVars, am, ob, td, sw, cb, mg, cm, rt, wa, wm, fs, gd, kn, rd, ci, dp, pq, bc>>

\* consume(streamId, amount)
consume ==
  /\ ms.phase = "live"
  /\ ms.calls < MaxManagerCalls
  /\ \E s \in StreamIds, amount \in Amounts :
       ms' = ManagerCalled("consume", s, StreamConsumed(ms.streams, s, amount))
  /\ UNCHANGED <<objVars, am, ob, td, sw, cb, mg, cm, rt, wa, wm, fs, gd, kn, rd, ci, dp, pq, bc>>

\* addCredits(streamId, amount)
addStreamCredits ==
  /\ ms.phase = "live"
  /\ ms.calls < MaxManagerCalls
  /\ \E s \in StreamIds, amount \in Amounts :
       ms' = ManagerCalled("addCredits", s, StreamAdded(ms.streams, s, amount))
  /\ UNCHANGED <<objVars, am, ob, td, sw, cb, mg, cm, rt, wa, wm, fs, gd, kn, rd, ci, dp, pq, bc>>

\* initWasm of one registered controller ends; no manager operation is called.
controllerSettles ==
  /\ ms.phase = "live"
  /\ \E s \in StreamIds :
       /\ ms.streams[s].wasm = "pending"
       /\ ms' = [ms EXCEPT !.streams[s] = WasmSettled(@, ms.module),
                           !.last = [op |-> "none", s |-> 0], !.prev = ms.streams]
  /\ UNCHANGED <<objVars, am, ob, td, sw, cb, mg, cm, rt, wa, wm, fs, gd, kn, rd, ci, dp, pq, bc>>

\* new MultiStreamCreditManager(defaultCredits)
InitManager ==
  /\ \E m \in {"native", "mock"}, d \in 0..MaxDefault :
       ms = [phase |-> "live", module |-> m, defaultCredits |-> d,
             streams |-> [s \in StreamIds |-> Absent],
             prev |-> [s \in StreamIds |-> Absent],
             last |-> [op |-> "none", s |-> 0], calls |-> 0]
  /\ am = None
  /\ ob = None
  /\ td = None
  /\ sw = None
  /\ cb = None
  /\ mg = None
  /\ cm = None
  /\ rt = None
  /\ wa = None
  /\ wm = None
  /\ fs = None
  /\ gd = None
  /\ kn = None
  /\ rd = None
  /\ ci = None
  /\ dp = None
  /\ pq = None
  /\ bc = None
  /\ NoPipe
  /\ NoCredit
  /\ NoRate

NextManager ==
  \/ registerStream
  \/ unregisterStream
  \/ consume
  \/ addStreamCredits
  \/ controllerSettles

SpecManager == InitManager /\ [][NextManager]_vars

\* ------------------------------------------------------------- claims
\* C8 as stated: over any sequence of consumeCredit, addCredits and reset
\* calls, (sum granted) - (sum consumed) = availableCredits() - initial.
C8_ConservationOverAnyRun == granted - consumed = credits - initialCredits

\* C8 amended: counting from construction or from the last reset, and as
\* long as no addCredits was clamped at the maximum, (sum granted) -
\* (sum successfully consumed) = availableCredits() - initial credits.
C8_ConservationSinceReset ==
  ~resets.saturated => resets.granted - resets.consumed = credits - initialCredits

C8_Witness ==
  /\ granted > resets.granted
  /\ resets.granted > 0
  /\ resets.consumed > 0
  /\ ~resets.saturated

\* The number of successful tryAcquire calls with a timestamp in lo..hi.
AcquiredIn(lo, hi) ==
  Cardinality({i \in 1..Len(acquired) : lo <= acquired[i] /\ acquired[i] <= hi})

\* C9 as stated: at any time t at most maxEvents tryAcquire calls returned
\* true with a timestamp in the closed interval [t - windowSizeMs, t].
C9_ClosedWindowBound ==
  \A t \in 0..MaxTime : AcquiredIn(t - windowSizeMs, t) <= maxEvents

\* C9 amended: at any time t at most maxEvents tryAcquire calls returned true
\* with a timestamp in the half-open interval (t - windowSizeMs, t].
C9_HalfOpenWindowBound ==
  \A t \in 0..MaxTime : AcquiredIn(t - windowSizeMs + 1, t) <= maxEvents

C9_Witness ==
  /\ Len(acquired) > maxEvents
  /\ \E i \in 1..Len(acquired) :
       /\ i + maxEvents <= Len(acquired)
       /\ acquired[i + maxEvents] - acquired[i] = windowSizeMs

\* C10: consumeCredit(n) returns true exactly when the available credits
\* were >= n, and then they decrease by exactly n; otherwise it returns
\* false and the available credits are unchanged.
C10_ConsumeCredit ==
  lastCall.op = "consumeCredit" =>
    /\ lastCall.ok <=> lastCall.before >= lastCall.amount
    /\ lastCall.ok => credits = lastCall.before - lastCall.amount
    /\ ~lastCall.ok => credits = lastCall.before

C10_Witness ==
  /\ lastCall.op = "consumeCredit"
  /\ lastCall.ok
  /\ lastCall.amount > 0
  /\ lastCall.before = lastCall.amount

\* C11: after any sequence of consumeCredit, addCredits and reset calls on a
\* controller created with non-negative initial credits, availableCredits()
\* is never negative.
C11_NeverNegative == initialCredits >= 0 => credits >= 0

\* ---------------------------------------------- claims on pipelines
\* The heap of the chain as the builder calls leave it, before any run.
FreshHeap ==
  [st |-> [j \in 1..Len(nodes) |-> InitSt(nodes[j])],
   hd |-> [j \in 1..Len(nodes) |-> IF nodes[j].kind = "rescue" THEN nodes[j].fn ELSE "none"],
   tm |-> [j \in 1..Len(nodes) |-> \E i \in 1..j : nodes[i].kind = "terminate"],
   read |-> 0]

Configs == [fusion : BOOLEAN, jit : {"fast", "off"}]

\* A chain of map, filter, scan, take and skip whose callbacks never throw.
PureChain ==
  \A j \in 2..Len(nodes) :
    /\ nodes[j].kind \in OpKinds
    /\ nodes[j].kind = "map" => nodes[j].fn # "throw2"

HasKind(kinds) == \E j \in 2..Len(nodes) : nodes[j].kind \in kinds

Shape(kinds) ==
  /\ Len(nodes) = Len(kinds) + 1
  /\ \A j \in 1..Len(kinds) : nodes[j + 1].kind = kinds[j]

FirstRun(op) == Len(hist) >= 1 /\ hist[1].op = op

Drop(A, k) == SubSeq(A, k + 1, Len(A))

Prefix(A, k) == SubSeq(A, 1, IF k < Len(A) THEN k ELSE Len(A))

RECURSIVE Sums(_, _, _)
Sums(f, acc, A) ==
  IF A = <<>> THEN <<>>
  ELSE LET a == ScanFn(f, acc, Head(A)) IN <<a>> \o Sums(f, a, Tail(A))

\* Reference semantics of one stage on a whole list.
RefStage(node, A) ==
  CASE node.kind = "map" ->
         LET Defined(v) == v # U
         IN SelectSeq([i \in 1..Len(A) |-> MapFn(node.fn, A[i])], Defined)
    [] node.kind = "filter" -> LET Keep(v) == Pred(node.fn, v) IN SelectSeq(A, Keep)
    [] node.kind = "scan" -> Sums(node.fn, ScanSeed(node.fn), A)
    [] node.kind = "take" -> Prefix(A, node.n)
    [] node.kind = "skip" -> Drop(A, node.n)
    [] OTHER -> A

\* Reference semantics of the stages of nodes 2..k, applied one after the
\* other to the whole list A.
RECURSIVE RefOut(_, _)
RefOut(k, A) == IF k <= 1 THEN A ELSE RefStage(nodes[k], RefOut(k - 1, A))

\* C1: for a chain of pure synchronous operators over an array, toArray()
\* returns the same array under all four combinations of fusion and JIT.
C1_FusionJitParity ==
  (FirstRun("toArray") /\ src = "array" /\ PureChain) =>
    \A c \in Configs :
      LET r == toArray([X |-> X, src |-> src, nodes |-> nodes], c, Top, FreshHeap)
      IN r.err = 0 /\ r.out = hist[1].out

C1_Witness ==
  /\ FirstRun("toArray") /\ src = "array" /\ PureChain
  /\ hist[1].cfg = [fusion |-> FALSE, jit |-> "off"]
  /\ HasKind({"take", "skip"}) /\ HasKind({"map", "filter"})
  /\ Len(X) = MaxLen
  /\ hist[1].out # <<>> /\ hist[1].out # X

\* C2: iterating the same pipeline with scan, take or skip over an array
\* twice yields the same output both times.
C2_ReiterationSameOutput ==
  (Len(hist) = 2 /\ src = "array" /\ PureChain /\ HasKind({"scan", "take", "skip"})) =>
    hist[2].out = hist[1].out

\* What from(X).map(f).rescue(h) is to deliver for the item x.
Rescued(f, h, x) == IF MapFn(f, x) < 0 THEN Handler(h, MapFn(f, x)) ELSE MapFn(f, x)

\* C3 as stated: from(X).map(f).rescue(h).toArray() has exactly one element
\* per input x, in input order: f(x), or h(error) when f threw.
C3_OneElementPerInput ==
  Shape(<<"map", "rescue">>) =>
    \A i \in 1..Len(hist) :
      (hist[i].op = "toArray" /\ (src = "array" \/ i = 1)) =>
        hist[i].out = [k \in 1..Len(X) |-> Rescued(nodes[2].fn, nodes[3].fn, X[k])]

\* C3 amended: the output has, in input order, one element per input x for
\* which f(x), or h(error) when f threw, is not undefined; an input whose
\* f(x) or h(error) is undefined contributes no element.  X is an array, or
\* an async generator that has not been consumed before.
C3_OneElementPerDefinedResult ==
  Shape(<<"map", "rescue">>) =>
    \A i \in 1..Len(hist) :
      (hist[i].op = "toArray" /\ (src = "array" \/ i = 1)) =>
        LET Defined(v) == v # U
        IN /\ hist[i].err = 0
           /\ hist[i].out =
                SelectSeq([k \in 1..Len(X) |-> Rescued(nodes[2].fn, nodes[3].fn, X[k])], Defined)

C3_Witness ==
  /\ src = "array" /\ Shape(<<"map", "rescue">>)
  /\ nodes[2].fn = "throw2" /\ nodes[3].fn = "hCode"
  /\ FirstRun("toArray")
  /\ hist[1].out = <<1, 12, 1>>

\* C4: under the default Drop policy from(X).map(f).toArray() is the list of
\* f(x) for the x on which f does not throw, each exactly once, for an array
\* and for an async generator.
C4_DropThrowingItems ==
  (FirstRun("toArray") /\ Shape(<<"map">>) /\ nodes[2].fn \in {"inc", "throw2"}) =>
    LET NoThrow(v) == v >= 0
    IN hist[1].out = SelectSeq([k \in 1..Len(X) |-> MapFn(nodes[2].fn, X[k])], NoThrow)

\* The first index of X holding v (0: none).
FirstIndex(v) ==
  IF \E i \in 1..Len(X) : X[i] = v
  THEN CHOOSE i \in 1..Len(X) : X[i] = v /\ \A j \in 1..(i - 1) : X[j] # v
  ELSE 0

\* C5: under terminateOnErrorMode(), when an operator throws on item i the
\* consumer receives the error and nothing derived from item i or later.
C5_TerminateDeliversError ==
  (/\ Len(hist) >= 1
   /\ Shape(<<"map", "terminate">>) \/ Shape(<<"terminate", "map">>)
   /\ \E j \in 2..3 : nodes[j].kind = "map" /\ nodes[j].fn = "throw2"
   /\ FirstIndex(2) > 0) =>
    /\ hist[1].err = 0 - 2
    /\ hist[1].out = IF hist[1].op = "toArray" THEN <<>> ELSE Prefix(X, FirstIndex(2) - 1)

\* The source index at which the take of node j receives its n-th item
\* (0: it never does).
TakeFullAt(j) ==
  LET Full(m) == Len(RefOut(j, Prefix(X, m))) = nodes[j].n
  IN IF \E m \in 1..Len(X) : Full(m)
     THEN CHOOSE m \in 1..Len(X) : Full(m) /\ \A l \in 1..(m - 1) : ~Full(l)
     ELSE 0

\* C6: once a take(n) has passed its n-th item the stream terminates: the
\* source is not polled beyond that item, for arrays and async iterables.
C6_TakeStopsPolling ==
  (Len(hist) >= 1 /\ PureChain) =>
    \A j \in 2..Len(nodes) :
      (nodes[j].kind = "take" /\ TakeFullAt(j) > 0) => hist[1].read <= TakeFullAt(j)

\* C7: from(X).skip(k).filter(p).toArray() is X[k..] filtered by p, and
\* from(X).filter(p).skip(k).toArray() is (X filtered by p)[k..].
C7_SkipFilterOrder ==
  (FirstRun("toArray") /\ src = "array") =>
    /\ Shape(<<"skip", "filter">>) =>
         LET Keep(v) == Pred(nodes[3].fn, v)
         IN hist[1].out = SelectSeq(Drop(X, nodes[2].n), Keep)
    /\ Shape(<<"filter", "skip">>) =>
         LET Keep(v) == Pred(nodes[2].fn, v)
         IN hist[1].out = Drop(SelectSeq(X, Keep), nodes[3].n)

C7_Witness ==
  /\ FirstRun("toArray") /\ src = "array"
  /\ Shape(<<"skip", "filter">>)
  /\ LET Keep(v) == Pred(nodes[3].fn, v)
     IN /\ hist[1].out # <<>>
        /\ hist[1].out # Drop(SelectSeq(X, Keep), nodes[2].n)

\* The policy of the outer-most stream as flattenChain reads it: its handler
\* if it has one, else Terminate if terminateOnError is set, else Drop.
OuterPolicy ==
  IF FreshHeap.hd[Top] # "none" THEN "rescue"
  ELSE IF FreshHeap.tm[Top] THEN "terminate"
  ELSE "drop"

\* The flattened pipeline run over X[i..] with every fault handled by the one
\* policy pol (h: its handler): what the consumer is to receive.
RECURSIVE Governed(_, _, _, _, _)
Governed(pol, h, i, st, out) ==
  IF i > Len(X) THEN [out |-> out, err |-> 0]
  ELSE LET c == RunOps(nodes, FlatOps(nodes, Top), 1, st, X[i])
       IN IF c.r > U THEN Governed(pol, h, i + 1, c.st, Append(out, c.r))
          ELSE IF c.r = U \/ pol = "drop" THEN Governed(pol, h, i + 1, c.st, out)
          ELSE IF pol = "terminate" THEN [out |-> out, err |-> c.r]
          ELSE Governed(pol, h, i + 1, c.st,
                        IF Handler(h, c.r) # U THEN Append(out, Handler(h, c.r)) ELSE out)

\* C12: for a chain of map/filter/scan/rescue/terminateOnErrorMode calls the
\* policy of the outer-most stream alone decides whether an operator fault is
\* dropped, rescued or terminating, for array and async-generator sources.
C12_OuterPolicyGoverns ==
  (/\ Len(hist) >= 1
   /\ \A j \in 2..Len(nodes) :
        nodes[j].kind \in {"map", "filter", "scan", "rescue", "terminate"}) =>
    LET g == Governed(OuterPolicy, FreshHeap.hd[Top], 1, FreshHeap.st, <<>>)
    IN /\ hist[1].err = g.err
       /\ hist[1].out = IF g.err # 0 /\ hist[1].op = "toArray" THEN <<>> ELSE g.out

\* C13: when an operator throws on an item under Rescue(h) and h returns a
\* value, that value is the item's output and no remaining operator of the
\* pipeline is applied to it: from(X).map(f).map(g).rescue(h) delivers h(err)
\* itself for an x on which f throws.
C13_RescueShortCircuits ==
  (Len(hist) >= 1 /\ Shape(<<"map", "map", "rescue">>)) =>
    hist[1].out = Governed("rescue", nodes[4].fn, 1, FreshHeap.st, <<>>).out

\* Every stage applied to every item with its promise awaited: the values
\* the pipeline is to deliver, in input order.
RECURSIVE Awaited(_, _, _)
Awaited(ops, A, taken) ==
  IF A = <<>> THEN <<>>
  ELSE LET v == fusedAsync(ops, 1, Head(A))
           takes == \E i \in 1..Len(ops) : ops[i] = "take"
       IN IF v = U THEN Awaited(ops, Tail(A), taken)
          ELSE IF takes /\ taken >= MaxN THEN <<>>
          ELSE <<v>> \o Awaited(ops, Tail(A), taken + 1)

\* C14: when an operator of a pipeline over an array returns a promise,
\* toArray() resolves to the outputs ordered by input index, whatever order
\* the per-item promises settle in.
C14_AsyncOutputsInInputOrder ==
  am.phase = "done" => am.out = Awaited(am.ops, am.X, 0)

\* C14 on the concurrent path alone: the outputs are in input order.
C14_ConcurrentPathInInputOrder ==
  (am.phase = "done" /\ am.launched # {}) => am.out = Awaited(am.ops, am.X, 0)

\* C15: after unsubscribe() has been called on the subscription returned by
\* observe(), the next callback is never invoked again.
C15_NoNextAfterUnsubscribe == ob.phase # "none" => ob.late = 0

\* C16: when the consumer of a debounce or bufferTime stream stops iterating
\* before upstream is exhausted, the producer stops pulling upstream items
\* and its pending timer or interval is released.
C16_StopReleasesProducer ==
  (td.phase = "started" /\ td.cons = "stopped") =>
    /\ td.pulledAfterStop = 0
    /\ td.i <= Len(td.X) => (~td.timer /\ ~td.interval)

\* C17: an error raised by the upstream source is delivered to the consumer
\* of debounce or bufferTime: its iteration does not complete normally.
C17_SourceFaultReachesConsumer ==
  (td.phase = "started" /\ td.upFailed) => td.cons # "done"

\* C18: in switchMap a new outer item cancels the previously active inner
\* stream: every emission belongs to the inner stream of the latest outer
\* item, none to the inner stream of an earlier one.
C18_OnlyLatestInnerEmits ==
  sw.phase # "none" =>
    \A e \in 1..Len(sw.out) : sw.out[e].k = sw.out[e].arrived

MinLen(L) == CHOOSE m \in 0..MaxSourceLen :
               (\E s \in Sources : L[s] = m) /\ (\A s \in Sources : L[s] >= m)

\* C19: the n-th tuple of combine holds the n-th value of every source, and
\* the stream ends with exactly min(L1..Lk) tuples.
C19_ZipOfSources ==
  cb.phase # "none" =>
    /\ \A n \in 1..Len(cb.out) : \A s \in Sources : cb.out[n][s] = Item(s, n)
    /\ cb.phase = "done" => Len(cb.out) = MinLen(cb.Lens)

\* The items of source s in the output, in output order.
FromSource(out, s) == SelectSeq(out, LAMBDA e : e.src = s)
FirstItems(s, k) == [n \in 1..k |-> Item(s, n)]

\* The items of each source appear once each and in that source's order;
\* a finished merge holds every item of every source.
MergeIsInterleaving ==
  /\ \A s \in Sources :
       FromSource(mg.out, s) = FirstItems(s, Len(FromSource(mg.out, s)))
  /\ \A e \in 1..Len(mg.out) : mg.out[e].src \in Sources
  /\ mg.phase = "done" =>
       \A s \in Sources : FromSource(mg.out, s) = FirstItems(s, mg.Lens[s])

\* C20: the output of merge is an interleaving of its sources: it holds every
\* item of every source exactly once, the items of one source in that
\* source's order, and the merged stream completes when all sources have
\* completed.
C20_MergeInterleaves ==
  /\ [](mg.phase # "none" => MergeIsInterleaving)
  /\ (mg.phase = "running" ~> mg.phase = "done")

\* A finished merge of two sources with several items each, whose output
\* alternates between them.
C20_Witness ==
  /\ mg.phase = "done"
  /\ \A s \in Sources : mg.Lens[s] >= 2
  /\ Len(mg.out) >= 4
  /\ mg.out[1].src # mg.out[2].src
  /\ mg.out[2].src # mg.out[3].src

\* C21: concatMap emits all values of the inner stream of the first outer
\* item, then all values of the inner stream of the second, and so on: the
\* output is ordered by outer item and inner position, and a finished
\* concatMap holds every value of every inner stream.
C21_ConcatInOuterOrder ==
  cm.phase # "none" =>
    /\ \A e \in 1..Len(cm.out) : cm.out[e] = EagerCopy(cm.X, cm.lenOf, 1)[e]
    /\ cm.phase = "done" => cm.out = EagerCopy(cm.X, cm.lenOf, 1)

\* After upstream item k arrived, no later item arrived for less than ms.
QuietAfter(k) ==
  \A l \in (k + 1)..Len(td.arrivedAt) : td.arrivedAt[l] >= td.arrivedAt[k] + TimerMs

\* C22: debounce emits an upstream value only if no later upstream value
\* arrived within ms after it, or if it is the pending value when upstream
\* completes; the emitted values keep upstream order.
C22_DebounceQuietOrFlush ==
  (td.phase = "started" /\ td.kind = "debounce") =>
    /\ \A e \in 1..Len(td.log) :
         \/ td.log[e].why = "timer" /\ QuietAfter(td.log[e].idx)
                                  /\ td.log[e].at >= td.arrivedAt[td.log[e].idx] + TimerMs
         \/ td.log[e].why = "flush" /\ td.log[e].idx = Len(td.X) /\ td.closed
    /\ \A e \in 1..(Len(td.log) - 1) : td.log[e].idx < td.log[e + 1].idx
    /\ Len(td.out) + Len(td.outQueue) = Len(td.log)
    /\ \A e \in 1..Len(td.out) : td.out[e] = td.X[td.log[e].idx]

\* A finished debounce that dropped an item overtaken within ms, emitted one
\* on its timer and flushed the pending one on completion.
C22_Witness ==
  /\ td.phase = "started"
  /\ td.kind = "debounce"
  /\ td.cons = "done"
  /\ Len(td.X) = 3
  /\ Len(td.out) = 2
  /\ td.log[1].why = "timer"
  /\ td.log[1].idx = 2
  /\ td.log[2].why = "flush"

\* The concatenation of a sequence of chunks.
RECURSIVE Flatten(_)
Flatten(chunks) == IF chunks = <<>> THEN <<>> ELSE Head(chunks) \o Flatten(Tail(chunks))

\* C23: for bufferTime over a finite upstream every emitted chunk is
\* non-empty, and the chunks emitted so far, those queued and the open buffer
\* hold the upstream items received so far, in order; once the stream is
\* done the concatenation of the emitted chunks is the upstream sequence.
C23_ChunksPartitionUpstream ==
  (td.phase = "started" /\ td.kind = "bufferTime") =>
    /\ \A e \in 1..Len(td.out) : td.out[e] # <<>>
    /\ Flatten(td.out \o td.outQueue) \o td.buf = SubSeq(td.X, 1, td.i - 1)
    /\ td.cons = "done" => Flatten(td.out) = td.X

\* A finished bufferTime that emitted one chunk on an interval tick and the
\* remainder on completion.
C23_Witness ==
  /\ td.phase = "started"
  /\ td.kind = "bufferTime"
  /\ td.cons = "done"
  /\ ~td.faulty
  /\ Len(td.X) = 3
  /\ Len(td.out) = 2
  /\ Len(td.out[1]) = 2
  /\ td.arrivedAt[3] >= TimerMs

\* C24: retry re-attempts the emission of an item at most max times, the k-th
\* re-attempt comes after a wait of delay * k and follows the (k-1)-th
\* attempt of the same item, and the stream fails exactly when an item has
\* been thrown at max + 1 times, with the error of the last throw.
C24_RetryBoundedWithBackoff ==
  rt.phase # "none" =>
    /\ \A e \in 1..Len(rt.emits) :
         /\ rt.emits[e].k <= rt.max
         /\ rt.emits[e].wait = rt.delay * rt.emits[e].k
         /\ rt.emits[e].k > 0 =>
              (rt.emits[e - 1].i = rt.emits[e].i /\ rt.emits[e - 1].k = rt.emits[e].k - 1)
    /\ rt.phase = "failed" <=> rt.retries > rt.max
    /\ rt.phase = "failed" =>
         /\ rt.error = rt.throws
         /\ rt.retries = rt.max + 1
         /\ rt.emits[Len(rt.emits)].k = rt.max

\* A stream that failed on its second item after all max = 2 re-attempts.
C24_Witness ==
  /\ rt.phase = "failed"
  /\ rt.max = 2
  /\ rt.delay = 2
  /\ rt.i = 2
  /\ rt.throws = 3
  /\ rt.emits[Len(rt.emits)].wait = 4

\* op applied to the W consecutive inputs X[i..i+W-1], added left to right.
RECURSIVE SumOf(_, _, _)
SumOf(A, from, to) == IF to < from THEN 0 ELSE FlAdd(SumOf(A, from, to - 1), A[to])
MaxIn(A, from, to) == CHOOSE m \in {A[k] : k \in from..to} : \A k \in from..to : A[k] <= m
MinIn(A, from, to) == CHOOSE m \in {A[k] : k \in from..to} : \A k \in from..to : A[k] >= m
OpOf(op, A, W, i) ==
  IF op = "mean" THEN [num |-> SumOf(A, i, i + W - 1), den |-> W]
  ELSE IF op = "sum" THEN [num |-> SumOf(A, i, i + W - 1), den |-> 1]
  ELSE IF op = "max" THEN [num |-> MaxIn(A, i, i + W - 1), den |-> 1]
  ELSE [num |-> MinIn(A, i, i + W - 1), den |-> 1]

\* C25: the output of windowedAggregate(W, op) over X has length
\* max(0, |X| - W + 1) and its i-th element is op applied to the W
\* consecutive inputs starting at X[i].
C25_WindowedAggregate ==
  wa.phase = "done" =>
    /\ Len(wa.out) = MaxOf(0, Len(wa.X) - wa.W + 1)
    /\ \A i \in 1..Len(wa.out) : wa.out[i] = OpOf(wa.op, wa.X, wa.W, i)

\* X[1] + ... + X[k]
RECURSIVE SumTo(_, _)
SumTo(A, k) == IF k = 0 THEN 0 ELSE SumTo(A, k - 1) + A[k]

\* C26: from(X).scan(+, 0).toArray() is the list of prefix sums of X: it has
\* |X| elements, the k-th being X[1] + ... + X[k]; the seed is not emitted.
C26_ScanPrefixSums ==
  (FirstRun("toArray") /\ src = "array" /\ Shape(<<"scan">>) /\ nodes[2].fn = "sum") =>
    /\ hist[1].err = 0
    /\ Len(hist[1].out) = Len(X)
    /\ \A k \in 1..Len(X) : hist[1].out[k] = SumTo(X, k)

C26_Witness ==
  /\ FirstRun("toArray") /\ src = "array" /\ Shape(<<"scan">>) /\ nodes[2].fn = "sum"
  /\ Len(X) = MaxLen
  /\ hist[1].out[MaxLen] = SumTo(X, MaxLen)

\* The kernel of a mapWasm call cannot be provided: no module, a module
\* without process_float32_batch, or a kernel name the module does not have.
KernelMissing(c) == ~HasBatch(c.module) \/ c.kernel # "f32x_map_mul_add"

\* C27: when the numeric kernel cannot be provided the mapWasm call itself
\* fails, so no pipeline is built whose operator fails later on an item.
C27_MapWasmFailsAtConstruction ==
  wm.phase # "none" =>
    /\ \A c \in 1..Len(wm.calls) : KernelMissing(wm.calls[c]) => wm.calls[c].result = "rejected"
    /\ \A i \in 1..Len(wm.items) : wm.items[i].outcome # "threw"

\* C28 as stated: the frames of one FrameSerializer carry strictly increasing
\* sequence numbers in the order of the serialize calls, over any sequence of
\* serialize and reset calls.
C28_SequenceIncreasesAlways ==
  fs.phase # "none" =>
    \A i \in 1..(Len(fs.frames) - 1) : fs.frames[i].sequence < fs.frames[i + 1].sequence

\* C28, amended: between two reset calls the sequence numbers increase by one
\* from frame to frame in the order of the serialize calls, and the first
\* frame after construction or after a reset has sequence number 0.
C28_SequenceIncreasesBetweenResets ==
  fs.phase # "none" =>
    /\ \A i \in 1..(Len(fs.frames) - 1) :
         IF fs.frames[i].resets = fs.frames[i + 1].resets
         THEN fs.frames[i + 1].sequence = fs.frames[i].sequence + 1
         ELSE fs.frames[i + 1].sequence = 0
    /\ Len(fs.frames) > 0 => fs.frames[1].sequence = 0

\* Two frames, a reset, two more frames.
C28_Witness ==
  /\ fs.phase = "live"
  /\ Len(fs.frames) = 4
  /\ fs.frames[2].resets = 0
  /\ fs.frames[3].resets = 1
  /\ fs.frames[4].sequence = 1

\* The whole pipeline evaluated asynchronously from the first item on, every
\* stage once per item.
RECURSIVE AsyncAll(_, _, _, _, _)
AsyncAll(ops, A, i, st, out) ==
  IF i > Len(A) THEN out
  ELSE AsyncAll(ops, A, i + 1, RunAsync(ops, 1, st, A[i]).st,
                PushIf(out, RunAsync(ops, 1, st, A[i])))

\* C29: when the synchronous fused run detects an async stage at some item
\* and hands the remainder to the async path, the complete output equals
\* that of evaluating the whole pipeline asynchronously from the first item.
C29_HandoffKeepsState ==
  (gd.phase = "done" /\ gd.handedAt > 0) =>
    gd.out = AsyncAll(gd.ops, gd.X, 1, FreshState, <<>>)

\* C30: whenever a stage of the per-item function returns a promise the
\* function raises ASYNC_DETECTED to its caller, under every error policy;
\* the sentinel is not handed to the rescue handler nor replaced by the
\* handler's return value.
C30_SentinelReachesCaller ==
  (gd.phase # "none" /\ gd.lastCall.promised) =>
    /\ gd.lastCall.tag = "sentinel"
    /\ gd.lastCall.handlerArg = "none"

\* C31: on the same operator list and the same array the guarded per-item
\* function, the unchecked per-item function, the scalar array kernel and
\* (without take) the unrolled array kernel produce the same output
\* sequence, whatever the array length.
C31_VariantsAgree ==
  kn.phase = "built" =>
    \A a, b \in {kn.guarded, kn.unchecked, kn.kernel, kn.unrolled} :
      (a # NotRun /\ b # NotRun) => a = b

\* What toArray() returns for the observed pipeline: the node's operator
\* applied once to every item.
ObservedToArray(op, A) == [i \in 1..Len(A) |-> Applied(op, A[i])]

\* C32: the values observe() passes to the next callback are the values
\* toArray() returns for the same pipeline, every operator applied exactly
\* once to each item.
C32_ObserveEqualsToArray ==
  (ob.phase = "done" /\ ob.completed) => ob.calls = ObservedToArray(ob.op, ob.X)

\* C33: reduce(r, s) returns the left fold of r from s over the sequence
\* toArray() returns for the same pipeline, with fusion enabled or not.
C33_ReduceFoldsToArray ==
  (rd.phase = "built" /\ rd.reduced /\ rd.collected) =>
    rd.result = Fold(rd.reducer, rd.initial, rd.array, 1)

\* C34: when the asynchronous initialisation of the native controller
\* completes, at whatever point between consumeCredit and addCredits calls,
\* availableCredits() returns the same value after it as before it.
C34_InitKeepsAvailable ==
  (ci.phase = "live" /\ ci.switch # "none") => ci.after = ci.before

\* The rate the specification gives after a latency has been fed back:
\* clamp(rate * (1 + alpha * (target - observed) / target), min, max) with
\* alpha = 1/5, as a fraction.
FedBack(rate, target, observed) ==
  LET num == rate.n * (6 * target - observed)
      den == rate.d * 5 * target
  IN IF num < 10 * den THEN Whole(10)
     ELSE IF num > 1000 * den THEN Whole(1000)
     ELSE Frac(num, den)

\* C36 as stated: every admission decision, accepting or rejecting, feeds
\* its latency into the adaptive controller.
C36_DecisionFeedsLatency ==
  (dp.phase = "live" /\ dp.last.op = "shouldAccept") =>
    dp.rate = FedBack(dp.last.rateBefore, dp.targetLatencyMs, dp.last.m.latencyMs)

\* C36 amended: onAccept and onReject each feed the latency of the metrics
\* they are given into the adaptive controller; shouldAccept decides with
\* the rate as the last such call left it and leaves it unchanged.
C36_HooksFeedLatency ==
  dp.phase = "live" =>
    /\ dp.last.op \in {"onAccept", "onReject"} =>
         dp.rate = FedBack(dp.last.rateBefore, dp.targetLatencyMs, dp.last.m.latencyMs)
    /\ dp.last.op = "shouldAccept" =>
         /\ dp.rate = dp.last.rateBefore
         /\ dp.last.accepted =
              (/\ dp.last.m.queueSize < dp.maxQueueSize
               /\ dp.last.m.latencyMs <= 2 * dp.targetLatencyMs
               /\ dp.last.m.inputRate * dp.rate.d <= dp.rate.n)

C36_Witness ==
  /\ dp.phase = "live"
  /\ dp.last.op = "onReject"
  /\ dp.rate # dp.last.rateBefore
  /\ dp.last.m.latencyMs > 2 * dp.targetLatencyMs

\* C35: iterating a stream (for await, toArray) leaves the rescue handler
\* and the terminate flag of every stream object of the chain as they were,
\* its parent's included.
C35_IterationKeepsPolicies ==
  [][hist' # hist => (heap'.hd = heap.hd /\ heap'.tm = heap.tm)]_vars

\* C37: no queue item is in the hands of two processQueue runs at once (one
\* started by the alarm, one by a 'resume' message), and the result of each
\* item is broadcast once.
C37_NoItemProcessedTwice ==
  pq.phase = "live" =>
    \A i \in 1..Len(pq.status) :
      Cardinality(pq.holders[i]) <= 1 /\ pq.broadcasts[i] <= 1

\* C38: the frames sent to a subscriber never exceed its initial credits
\* plus the sum of the amounts it has granted through 'credit' messages.
C38_SentWithinCredits ==
  bc.phase = "live" =>
    \A s \in StreamIds : bc.sent[s] <= StreamCredits + bc.granted[s]

\* C39: a MultiStreamCreditManager operation naming stream s (registerStream,
\* unregisterStream, consume, addCredits) leaves every other registered
\* stream registered, with the available credits it had.
C39_OtherStreamsUnchanged ==
  (ms.phase = "live" /\ ms.last.op # "none") =>
    \A t \in StreamIds \ {ms.last.s} :
      ms.prev[t] # Absent =>
        /\ ms.streams[t] # Absent
        /\ AvailableCredits(ms.streams[t]) = AvailableCredits(ms.prev[t])

\* A call that changed the credits of the stream it named while another
\* stream was registered.
C39_Witness ==
  /\ ms.phase = "live"
  /\ ms.last.op \in {"consume", "addCredits"}
  /\ ms.prev[ms.last.s] # Absent
  /\ AvailableCredits(ms.streams[ms.last.s]) # AvailableCredits(ms.prev[ms.last.s])
  /\ \E t \in StreamIds \ {ms.last.s} : ms.prev[t] # Absent

\* C40: for debounce and bufferTime, once upstream has completed the output
\* stream eventually completes (or its consumer has stopped iterating): the
\* consumer does not wait on the notifier for ever.  It completes only when
\* closed with an empty queue, and whatever leaves the queue is handed to the
\* consumer, so every output placed in the queue is delivered first.
C40_CompletesAfterUpstream ==
  /\ [](td.cons = "done" => (td.closed /\ td.outQueue = <<>>))
  /\ [][Len(td.outQueue') < Len(td.outQueue) =>
          (td.outQueue' = Tail(td.outQueue) /\ td.out' = Append(td.out, Head(td.outQueue)))]_vars
  /\ (td.prod = "ended" ~> td.cons \in {"done", "stopped"})

\* A stream that completed after its consumer had been woken by the
\* producer's final flush and had taken that output from the queue.
C40_Witness ==
  /\ td.phase = "started"
  /\ td.cons = "done"
  /\ td.prod = "ended"
  /\ ~td.faulty
  /\ Len(td.X) >= 2
  /\ td.out # <<>>
  /\ td.kind = "debounce" => td.log[Len(td.log)].why = "flush"
  /\ td.kind = "bufferTime" => Len(td.out) >= 2

====
